---- MODULE Spec2Model ----
(***************************************************************************)
(* Model of the profile store, the per-profile version log and the report  *)
(* extraction engine of Al-QuranCircle-Autofill-Tool (src/utils.py,        *)
(* src/ui_main.py, src/reporting/report_extractor.py), of the settings     *)
(* store (src/config.py) and of the form submission (src/automation.py).   *)
(*                                                                         *)
(* Python strings are tuples of one-character strings (<<>> is "").  A     *)
(* Python dict over the profile keys is a function on Keys whose value is  *)
(* None where the key is absent: dict.get(key) of an absent key is None.   *)
(***************************************************************************)
EXTENDS Integers, Sequences, FiniteSets, TLC

VARIABLES profiles, history, generated, current_profile, current_profile_file,
          profiles_cache, backup, appOpen, call, ret,
          config, DEFAULT_SETTINGS, aliased, settings_file, config_calls,
          submission, writers, stems

\* the settings store, the running form submission, the concurrent savers,
\* the stems of the record files' names
extVars == <<config, DEFAULT_SETTINGS, aliased, settings_file, config_calls,
             submission, writers, stems>>

vars == <<profiles, history, generated, current_profile, current_profile_file,
          profiles_cache, backup, appOpen, call, ret, extVars>>

\* the profile store
storeVars == <<profiles, history, generated, current_profile, current_profile_file,
               profiles_cache, backup, appOpen>>

\* the settings store
configVars == <<config, DEFAULT_SETTINGS, aliased, settings_file, config_calls>>

(***************************************************************************)
(* Bounds of the model.                                                    *)
(***************************************************************************)
\* most lines the history files hold together in the version-log specification
MaxLog == 3
\* most lines the history files hold together in the application specification
MaxAppLog == 2
\* most history snapshots of a profile in the report specification
MaxHist == 2
\* most items of a backup file in the store specification
MaxItems == 2

(***************************************************************************)
(* Settings values.  A JSON value is a tag and a payload: a string, a      *)
(* number, a list of strings, or a dict (a function on its keys).          *)
(***************************************************************************)
Str(s) == [t |-> "str", v |-> s]
Num(n) == [t |-> "int", v |-> n]
List(l) == [t |-> "list", v |-> l]
Dict(f) == [t |-> "dict", v |-> f]

\* DEFAULT_SETTINGS as the module defines it, with the keys the model keeps:
\* a string, two nested dicts and the list
OriginalDefaults ==
    Dict([k \in {"theme", "teacher", "recent_files", "google_form"} |->
            CASE k = "theme"        -> Str("system")
              [] k = "teacher"      -> Dict([f \in {"name", "max_students"} |->
                                               IF f = "name" THEN Str("") ELSE Num(40)])
              [] k = "recent_files" -> List(<<>>)
              [] k = "google_form"  -> Dict([f \in {"form_url", "retries"} |->
                                               IF f = "form_url" THEN Str("") ELSE Num(3)])])

\* the savers of the race on one history log
Writers == {"w1", "w2"}

\* a saver that is not inside append_profile_history
IdleWriter == [pc |-> "idle", existing |-> <<>>, changes |-> <<>>, snapshot |-> <<>>]

\* the names of the two record files when neither begins with the other
DefaultStems == [p \in {"p1", "p2"} |-> <<"p", IF p = "p1" THEN "1" ELSE "2">>]

\* no submit_profile_to_form call is running
NoSubmission ==
    [pc |-> "idle", max_retries |-> 0, retry_delay_seconds |-> 0, attempt |-> 0,
     events |-> <<>>, result |-> "none"]

\* the state after `config = ConfigManager()` at import with no settings file:
\* _config is a shallow copy of DEFAULT_SETTINGS, so every value of _config
\* is the very object DEFAULT_SETTINGS holds, and save_settings has written
\* the file
InitExt ==
    /\ config = OriginalDefaults
    /\ DEFAULT_SETTINGS = OriginalDefaults
    /\ aliased = DOMAIN OriginalDefaults.v
    /\ settings_file = [exists |-> TRUE, data |-> OriginalDefaults]
    /\ config_calls = <<>>
    /\ submission = NoSubmission
    /\ writers = [w \in Writers |-> IdleWriter]
    /\ stems = DefaultStems

(***************************************************************************)
(* Strings.                                                                *)
(***************************************************************************)
None == <<"None">>
EmptyStr == <<>>

Digits == {"0", "1", "2", "3", "4", "5", "6", "7", "8", "9"}

\* ord(c) of the characters the model's strings are made of
CharCode(c) ==
    CASE c = " " -> 32
      [] c = "-" -> 45
      [] c = "/" -> 47
      [] c = "0" -> 48
      [] c = "1" -> 49
      [] c = "2" -> 50
      [] c = "3" -> 51
      [] c = "4" -> 52
      [] c = "5" -> 53
      [] c = "6" -> 54
      [] c = "7" -> 55
      [] c = "8" -> 56
      [] c = "9" -> 57
      [] OTHER -> 65

DigitVal(c) == CharCode(c) - 48

RECURSIVE StrLess(_, _)
\* Python's str < str: lexicographic by code point, a proper prefix is smaller
StrLess(a, b) ==
    IF b = <<>> THEN FALSE
    ELSE IF a = <<>> THEN TRUE
    ELSE IF CharCode(Head(a)) # CharCode(Head(b))
         THEN CharCode(Head(a)) < CharCode(Head(b))
         ELSE StrLess(Tail(a), Tail(b))

StrLessEq(a, b) == a = b \/ StrLess(a, b)

RECURSIVE SplitAt(_, _, _)
\* s.split(sep) for a one-character separator; cur is the part being read
SplitAt(s, sep, cur) ==
    IF s = <<>> THEN <<cur>>
    ELSE IF Head(s) = sep THEN <<cur>> \o SplitAt(Tail(s), sep, <<>>)
    ELSE SplitAt(Tail(s), sep, Append(cur, Head(s)))

Split(s, sep) == SplitAt(s, sep, <<>>)

IsDigits(p) == \A i \in 1..Len(p) : p[i] \in Digits

RECURSIVE ToNum(_)
ToNum(p) == IF p = <<>> THEN 0 ELSE 10 * ToNum(SubSeq(p, 1, Len(p) - 1)) + DigitVal(p[Len(p)])

IsLeap(y) == (y % 4 = 0 /\ y % 100 # 0) \/ y % 400 = 0

DaysInMonth(m, y) ==
    IF m = 2 THEN (IF IsLeap(y) THEN 29 ELSE 28)
    ELSE IF m \in {4, 6, 9, 11} THEN 30 ELSE 31

NoDate == [ok |-> FALSE, y |-> 0, m |-> 0, d |-> 0]

\* a day, month and year field as datetime.strptime reads %d, %m and %Y
FieldsToDate(dd, mm, yy) ==
    IF /\ Len(dd) \in 1..2 /\ IsDigits(dd)
       /\ Len(mm) \in 1..2 /\ IsDigits(mm)
       /\ Len(yy) = 4 /\ IsDigits(yy)
       /\ ToNum(mm) \in 1..12
       /\ ToNum(dd) >= 1 /\ ToNum(dd) <= DaysInMonth(ToNum(mm), ToNum(yy))
       /\ ToNum(yy) >= 1
    THEN [ok |-> TRUE, y |-> ToNum(yy), m |-> ToNum(mm), d |-> ToNum(dd)]
    ELSE NoDate

\* datetime.strptime(s, '%d/%m/%Y'); ok = FALSE stands for ValueError
StrptimeDMY(s) ==
    LET parts == Split(s, "/")
    IN IF s = None \/ Len(parts) # 3 THEN NoDate
       ELSE FieldsToDate(parts[1], parts[2], parts[3])

\* datetime.strptime(s, '%Y-%m-%d')
StrptimeYMD(s) ==
    LET parts == Split(s, "-")
    IN IF s = None \/ Len(parts) # 3 THEN NoDate
       ELSE FieldsToDate(parts[3], parts[2], parts[1])

\* datetime.strptime(s, '%m/%d/%Y')
StrptimeMDY(s) ==
    LET parts == Split(s, "/")
    IN IF s = None \/ Len(parts) # 3 THEN NoDate
       ELSE FieldsToDate(parts[2], parts[1], parts[3])

\* the order of two datetime values
DateOrd(dt) == dt.y * 372 + dt.m * 31 + dt.d

(***************************************************************************)
(* Profile documents.                                                      *)
(***************************************************************************)
Keys == {"student_name", "date", "quran_surah", "topic", "homework", "_file"}

\* the keys of the form's field widgets (FIELD_KEYS) that the model keeps
FieldKeys == Keys \ {"_file"}

EmptyDoc == [k \in Keys |-> None]

\* dict.get(key, default)
Get(doc, key, default) == IF doc[key] = None THEN default ELSE doc[key]

\* set(doc.keys())
KeysOf(doc) == {k \in Keys : doc[k] # None}

RecordIds == {"p1", "p2"}

\* str(profile_path)
FileStr(p) == <<p>>

(***************************************************************************)
(* The version log (src/utils.py).                                         *)
(***************************************************************************)
NoHistoryFile == [exists |-> FALSE, lines |-> <<>>]

\* The kinds of line a history file can hold: "entry" is a version entry
\* written by append_profile_history, "object" another JSON object (version
\* 0 stands for no version key), "value" a JSON number, "invalid" text that is not JSON, "blank" an empty line, and "undecodable"
\* bytes that are not UTF-8.
LineKinds == {"entry", "object", "value", "invalid", "blank", "undecodable"}

\* json.loads(line) succeeds and isinstance(entry, dict)
IsEntryLine(line) == line.kind \in {"entry", "object"}

\* iterating the file opened with encoding="utf-8" raises UnicodeDecodeError,
\* which load_profile_history does not catch
LoadRaises(p) ==
    /\ history[p].exists
    /\ \E i \in 1..Len(history[p].lines) : history[p].lines[i].kind = "undecodable"

\* the entries load_profile_history reads from the history file of p when it
\* does not raise
load_profile_history(p) ==
    IF ~history[p].exists THEN <<>>
    ELSE SelectSeq(history[p].lines, IsEntryLine)

\* a mutant that records the old value as the new one and the new as the old
compute_profile_diff_swapped(old, new) ==
    [k \in {key \in KeysOf(old) \cup KeysOf(new) : old[key] # new[key]} |->
        [old |-> new[k], new |-> old[k]]]

compute_profile_diff(old, new) ==
    [k \in {key \in KeysOf(old) \cup KeysOf(new) : old[key] # new[key]} |->
        [old |-> old[k], new |-> new[k]]]

\* a mutant that numbers the new entry like the last one
next_version_same(existing) ==
    IF existing = <<>> THEN 0 ELSE existing[Len(existing)].version

next_version(existing) ==
    (IF existing = <<>> THEN 0 ELSE existing[Len(existing)].version) + 1

\* snapshot = dict(new_data); snapshot.setdefault("_file", str(profile_path))
make_snapshot(p, new) ==
    [new EXCEPT !["_file"] = IF new["_file"] = None THEN FileStr(p) ELSE @]

\* a mutant without the early return on an empty diff
history_after_append_always(p, old, new) ==
    LET existing == load_profile_history(p)
        entry    == [kind |-> "entry", version |-> next_version(existing),
                     profile_file |-> p,
                     changes |-> compute_profile_diff(old, new),
                     snapshot |-> make_snapshot(p, new)]
    IN [exists |-> TRUE, lines |-> Append(history[p].lines, entry)]

\* the history file of p after append_profile_history(p, old, new)
history_after_append(p, old, new) ==
    LET existing == load_profile_history(p)
        version  == next_version(existing)
        changes  == compute_profile_diff(old, new)
        entry    == [kind |-> "entry", version |-> version, profile_file |-> p,
                     changes |-> changes, snapshot |-> make_snapshot(p, new)]
    IN IF LoadRaises(p) \/ DOMAIN changes = {} THEN history[p]
       ELSE [exists |-> TRUE, lines |-> Append(history[p].lines, entry)]

RECURSIVE SumLines(_, _)
SumLines(h, ids) ==
    IF ids = {} THEN 0
    ELSE LET p == CHOOSE q \in ids : TRUE
         IN Len(h[p].lines) + SumLines(h, ids \ {p})

\* the number of lines of all history files
TotalLines(h) == SumLines(h, RecordIds)

InitCommon ==
    /\ profiles = [p \in RecordIds |-> [exists |-> FALSE, data |-> EmptyDoc]]
    /\ history = [p \in RecordIds |-> NoHistoryFile]
    /\ generated = {}
    /\ current_profile = [set |-> FALSE, data |-> EmptyDoc]
    /\ current_profile_file = "none"
    /\ profiles_cache = <<>>
    /\ backup = [exists |-> FALSE, items |-> <<>>]
    /\ appOpen = FALSE
    /\ InitExt
    /\ call = [op |-> "none", args |-> <<>>]
    /\ ret = None

(***************************************************************************)
(* SpecLog: a single writer calls append_profile_history on logs that      *)
(* start absent.                                                           *)
(***************************************************************************)
LogTopics == {None, EmptyStr, <<"A">>}

LogDocs == {[EmptyDoc EXCEPT !["topic"] = t] : t \in LogTopics}

append_profile_history(p, old, new) ==
    /\ TotalLines([history EXCEPT ![p] = history_after_append(p, old, new)]) <= MaxLog
    /\ history' = [history EXCEPT ![p] = history_after_append(p, old, new)]
    /\ UNCHANGED extVars
    /\ call' = [op |-> "append_profile_history", args |-> <<p, old, new>>]
    /\ ret' = IF LoadRaises(p) THEN <<"raised">> ELSE None
    /\ UNCHANGED <<profiles, generated, current_profile, current_profile_file,
                   profiles_cache, backup, appOpen>>

NextLog == \E p \in RecordIds, old \in LogDocs, new \in LogDocs :
              append_profile_history(p, old, new)

SpecLog == InitCommon /\ [][NextLog]_vars

(***************************************************************************)
(* SpecRead: load_profile_history and append_profile_history on a history  *)
(* file whose lines were damaged after they were written.                  *)
(***************************************************************************)
\* the entry that was written as line i of the history file of p
ReadEntry(p, i) ==
    [kind |-> "entry", version |-> i, profile_file |-> p,
     changes |-> compute_profile_diff(EmptyDoc, [EmptyDoc EXCEPT !["topic"] = <<"A">>]),
     snapshot |-> make_snapshot(p, [EmptyDoc EXCEPT !["topic"] = <<"A">>])]

\* a line that is no version entry
DamagedLine(kind) ==
    [kind |-> kind, version |-> 0, profile_file |-> "none",
     changes |-> compute_profile_diff(EmptyDoc, EmptyDoc), snapshot |-> EmptyDoc]

\* the history files of p with at most MaxLog lines, each line the entry
\* written there or a damaged line
ReadLogs(p) ==
    UNION {{[exists |-> TRUE,
             lines |-> [i \in 1..n |-> IF kinds[i] = "entry" THEN ReadEntry(p, i)
                                       ELSE DamagedLine(kinds[i])]] :
               kinds \in [1..n -> LineKinds]} : n \in 0..MaxLog}

InitRead ==
    /\ profiles = [p \in RecordIds |-> [exists |-> FALSE, data |-> EmptyDoc]]
    /\ history \in {[p \in RecordIds |-> IF p = "p1" THEN h ELSE NoHistoryFile] :
                        h \in {NoHistoryFile} \cup ReadLogs("p1")}
    /\ generated = {}
    /\ current_profile = [set |-> FALSE, data |-> EmptyDoc]
    /\ current_profile_file = "none"
    /\ profiles_cache = <<>>
    /\ backup = [exists |-> FALSE, items |-> <<>>]
    /\ appOpen = FALSE
    /\ InitExt
    /\ call = [op |-> "none", args |-> <<>>]
    /\ ret = None

load_profile_history_call(p) ==
    /\ UNCHANGED extVars
    /\ call' = [op |-> "load_profile_history", args |-> <<p>>]
    /\ ret' = IF LoadRaises(p) THEN [raised |-> TRUE, entries |-> <<>>]
              ELSE [raised |-> FALSE, entries |-> load_profile_history(p)]
    /\ UNCHANGED <<profiles, history, generated, current_profile,
                   current_profile_file, profiles_cache, backup, appOpen>>

NextRead ==
    \/ \E p \in RecordIds : load_profile_history_call(p)
    \/ \E p \in RecordIds, old \in LogDocs, new \in LogDocs :
          append_profile_history(p, old, new)

SpecRead == InitRead /\ [][NextRead]_vars

(***************************************************************************)
(* SpecDiff: _compute_profile_diff applied to every pair of documents over *)
(* two keys.                                                               *)
(***************************************************************************)
DiffValues == {None, EmptyStr, <<"A">>, <<"B">>}

DiffDocs == {[EmptyDoc EXCEPT !["topic"] = t, !["homework"] = h] :
                t \in DiffValues, h \in DiffValues}

compute_profile_diff_call(old, new) ==
    /\ UNCHANGED extVars
    /\ call' = [op |-> "_compute_profile_diff", args |-> <<old, new>>]
    /\ ret' = compute_profile_diff(old, new)
    /\ UNCHANGED <<profiles, history, generated, current_profile,
                   current_profile_file, profiles_cache, backup, appOpen>>

NextDiff == \E old \in DiffDocs, new \in DiffDocs : compute_profile_diff_call(old, new)

SpecDiff == InitCommon /\ [][NextDiff]_vars

(***************************************************************************)
(* SpecApp: the window of StudentManagerApp over the profile files, the    *)
(* history files and one backup file.  What the form holds when a handler  *)
(* reads it (_read_form_data) is the handler's input: the user may have    *)
(* typed anything since the form was last written.                         *)
(***************************************************************************)
NoPath == "none"

NoProfile == [set |-> FALSE, data |-> EmptyDoc]

NoProfileFile == [exists |-> FALSE, data |-> EmptyDoc]

\* list_profile_files() sorts the paths
RecordOrder == <<"p1", "p2">>

\* Path(str).name of a path string
PathName(fileStr) == fileStr[1]

RECURSIVE LoadAll(_, _)
LoadAll(files, i) ==
    IF i > Len(RecordOrder) THEN <<>>
    ELSE (IF files[RecordOrder[i]].exists
          THEN <<[files[RecordOrder[i]].data EXCEPT !["_file"] = FileStr(RecordOrder[i])]>>
          ELSE <<>>) \o LoadAll(files, i + 1)

\* load_all_profiles(): each stored document with _file set to its path
load_all_profiles(files) == LoadAll(files, 1)

AppDate == <<"0", "1", "/", "1", "2", "/", "2", "0", "2", "4">>
BadDate == <<"x">>

\* what _read_form_data can return: every field key, stripped strings; two
\* forms save_profile accepts, one without a student name, one with a bad date
ValidForm(t) ==
    [k \in Keys |->
        CASE k = "student_name" -> <<"A", "l", "i">>
          [] k = "date"         -> AppDate
          [] k = "quran_surah"  -> <<"S">>
          [] k = "topic"        -> t
          [] k = "homework"     -> EmptyStr
          [] OTHER              -> None]

FormDocs ==
    {ValidForm(t) : t \in {<<"A">>, <<"B">>}}
    \cup {[ValidForm(<<"A">>) EXCEPT !["student_name"] = EmptyStr],
          [ValidForm(<<"A">>) EXCEPT !["date"] = BadDate]}

\* the form with every field empty
BlankForm == [k \in Keys |-> IF k = "_file" THEN None ELSE EmptyStr]

\* datetime.strptime(s, '%d-%m-%Y') and '%m-%d-%Y'
StrptimeDMYDash(s) ==
    LET parts == Split(s, "-")
    IN IF s = None \/ Len(parts) # 3 THEN NoDate
       ELSE FieldsToDate(parts[1], parts[2], parts[3])

StrptimeMDYDash(s) ==
    LET parts == Split(s, "-")
    IN IF s = None \/ Len(parts) # 3 THEN NoDate
       ELSE FieldsToDate(parts[2], parts[1], parts[3])

\* a JSON value that is no string (null, a number) as the value of a key
NonString == <<"null">>

RECURSIVE LStrip(_)
LStrip(str) == IF str # <<>> /\ Head(str) = " " THEN LStrip(Tail(str)) ELSE str

RECURSIVE RStrip(_)
RStrip(str) ==
    IF str # <<>> /\ str[Len(str)] = " " THEN RStrip(SubSeq(str, 1, Len(str) - 1)) ELSE str

\* str.strip()
Strip(str) == RStrip(LStrip(str))

\* validate_profile_data(data) raises AttributeError: .strip() of a value that
\* is no string, for student_name, or for date once the name was accepted
ValidateRaises(data) ==
    \/ data["student_name"] = NonString
    \/ /\ Strip(Get(data, "student_name", EmptyStr)) # EmptyStr
       /\ data["date"] = NonString

\* a mutant that does not require a student name
validate_profile_data_any_name(data) ==
    /\ ~ValidateRaises(data)
    /\ LET date_str == Strip(Get(data, "date", EmptyStr))
       IN \/ date_str = EmptyStr
          \/ StrptimeYMD(date_str).ok
          \/ StrptimeDMY(date_str).ok
          \/ StrptimeMDY(date_str).ok
          \/ StrptimeDMYDash(date_str).ok
          \/ StrptimeMDYDash(date_str).ok

\* validate_profile_data(data)[0]; the model's strings are shorter than
\* every length limit and it keeps no email field
validate_profile_data(data) ==
    /\ ~ValidateRaises(data)
    /\ Strip(Get(data, "student_name", EmptyStr)) # EmptyStr
    /\ LET date_str == Strip(Get(data, "date", EmptyStr))
       IN \/ date_str = EmptyStr
          \/ StrptimeYMD(date_str).ok
          \/ StrptimeDMY(date_str).ok
          \/ StrptimeMDY(date_str).ok
          \/ StrptimeDMYDash(date_str).ok
          \/ StrptimeMDYDash(date_str).ok

\* the profile files the application specification creates
AppIds == {"p1"}

\* the paths save_profile(data, filename) can write: the named file, or for
\* filename None a file named after the student and the second of the save,
\* a name that was not generated before
save_profile_targets(filename) ==
    IF filename # NoPath THEN {filename}
    ELSE AppIds \ generated

\* the history files after the append step of save_profile_action
history_after_save(target, old_data, data) ==
    IF current_profile_file # NoPath /\ current_profile.set
    THEN [history EXCEPT ![current_profile_file] =
              history_after_append(current_profile_file, old_data, data)]
    ELSE history

Launch ==
    /\ ~appOpen
    /\ appOpen' = TRUE
    /\ current_profile' = NoProfile
    /\ current_profile_file' = NoPath
    /\ profiles_cache' = load_all_profiles(profiles)
    /\ UNCHANGED extVars
    /\ call' = [op |-> "__init__", args |-> <<>>]
    /\ ret' = None
    /\ UNCHANGED <<profiles, history, generated, backup>>

load_profile_into_form(i) ==
    /\ appOpen
    /\ i \in 1..Len(profiles_cache)
    /\ current_profile' = [set |-> TRUE, data |-> profiles_cache[i]]
    /\ current_profile_file' = PathName(profiles_cache[i]["_file"])
    /\ UNCHANGED extVars
    /\ call' = [op |-> "load_profile_into_form", args |-> <<>>]
    /\ ret' = None
    /\ UNCHANGED <<profiles, history, generated, profiles_cache, backup, appOpen>>

add_new_student ==
    /\ appOpen
    /\ current_profile' = NoProfile
    /\ current_profile_file' = NoPath
    /\ UNCHANGED extVars
    /\ call' = [op |-> "add_new_student", args |-> <<>>]
    /\ ret' = None
    /\ UNCHANGED <<profiles, history, generated, profiles_cache, backup, appOpen>>

\* where the storage can fail during a save: nowhere, when save_profile opens
\* the profile file for writing, or when append_profile_history opens the
\* history file for appending
SaveFailures == {"none", "write", "append"}

save_profile_action(data, fail) ==
    /\ appOpen
    /\ UNCHANGED extVars
    /\ call' = [op |-> "save_profile_action", args |-> <<data, fail>>]
    /\ IF data["student_name"] = EmptyStr
       THEN \* "Student Name is required."
            /\ fail = "none"
            /\ ret' = <<"warning">>
            /\ UNCHANGED <<profiles, history, generated, current_profile,
                           current_profile_file, profiles_cache>>
       ELSE IF ~validate_profile_data(data)
       THEN \* save_profile raises ValueError, reported by the handler
            /\ fail = "none"
            /\ ret' = <<"error">>
            /\ UNCHANGED <<profiles, history, generated, current_profile,
                           current_profile_file, profiles_cache>>
       ELSE IF fail = "write"
       THEN \* profile_path.open("w") raises OSError, reported by the handler
            /\ ret' = <<"error">>
            /\ UNCHANGED <<profiles, history, generated, current_profile,
                           current_profile_file, profiles_cache>>
       ELSE \E target \in save_profile_targets(current_profile_file) :
            LET logged   == current_profile_file # NoPath /\ current_profile.set
                old_data == IF logged THEN current_profile.data ELSE EmptyDoc
                newHistory == history_after_save(target, old_data, data)
                \* append_profile_history raises: reading a damaged log, or
                \* opening the history file to append the entry
                appendRaises ==
                    logged /\ (LoadRaises(current_profile_file) \/ fail = "append")
            IN /\ fail = "append" =>
                     /\ logged
                     /\ ~LoadRaises(current_profile_file)
                     /\ DOMAIN compute_profile_diff(old_data, data) # {}
               /\ profiles' = [profiles EXCEPT ![target] = [exists |-> TRUE, data |-> data]]
               /\ generated' = generated \cup {target}
               /\ IF appendRaises
                  THEN \* the exception skips the rest of the try block
                       /\ ret' = <<"error">>
                       /\ UNCHANGED <<history, current_profile, current_profile_file,
                                      profiles_cache>>
                  ELSE /\ TotalLines(newHistory) <= MaxAppLog
                       /\ history' = newHistory
                       /\ current_profile_file' = target
                       /\ current_profile' = [set |-> TRUE, data |-> data]
                       /\ profiles_cache' = load_all_profiles(profiles')
                       /\ ret' = <<"saved">>
    /\ UNCHANGED <<backup, appOpen>>

\* a mutant that removes the history file together with the profile file
delete_profile_action_with_log ==
    /\ appOpen
    /\ UNCHANGED extVars
    /\ call' = [op |-> "delete_profile_action", args |-> <<>>]
    /\ IF current_profile_file = NoPath
       THEN /\ ret' = <<"warning">>
            /\ UNCHANGED <<profiles, history, current_profile, current_profile_file,
                           profiles_cache>>
       ELSE /\ profiles' = [profiles EXCEPT ![current_profile_file] = NoProfileFile]
            /\ history' = [history EXCEPT ![current_profile_file] = NoHistoryFile]
            /\ current_profile' = NoProfile
            /\ current_profile_file' = NoPath
            /\ profiles_cache' = load_all_profiles(profiles')
            /\ ret' = <<"deleted">>
    /\ UNCHANGED <<generated, backup, appOpen>>

delete_profile_action ==
    /\ appOpen
    /\ UNCHANGED extVars
    /\ call' = [op |-> "delete_profile_action", args |-> <<>>]
    /\ IF current_profile_file = NoPath
       THEN /\ ret' = <<"warning">>
            /\ UNCHANGED <<profiles, current_profile, current_profile_file,
                           profiles_cache>>
       ELSE /\ profiles' = [profiles EXCEPT ![current_profile_file] = NoProfileFile]
            /\ current_profile' = NoProfile
            /\ current_profile_file' = NoPath
            /\ profiles_cache' = load_all_profiles(profiles')
            /\ ret' = <<"deleted">>
    /\ UNCHANGED <<history, generated, backup, appOpen>>

backup_profiles_action ==
    /\ appOpen
    /\ backup' = [exists |-> TRUE, items |-> load_all_profiles(profiles)]
    /\ UNCHANGED extVars
    /\ call' = [op |-> "backup_profiles_action", args |-> <<>>]
    /\ ret' = None
    /\ UNCHANGED <<profiles, history, generated, current_profile,
                   current_profile_file, profiles_cache, appOpen>>

\* a backup list item that is no JSON object
NonDictItem == [k \in Keys |-> <<"nondict">>]

\* the first name in list order that save_profile has not generated
FreshName(names) ==
    IF \A i \in 1..Len(RecordOrder) : RecordOrder[i] \in names THEN NoPath
    ELSE RecordOrder[CHOOSE i \in 1..Len(RecordOrder) :
                        /\ RecordOrder[i] \notin names
                        /\ \A j \in 1..(i - 1) : RecordOrder[j] \in names]

\* the state of restore_profiles_from_backup before its loop: the profile
\* files, the names generated, the name generated in the second of the call
\* (the loop is over within that second), the count, an uncaught exception
RestoreStart(files, names) ==
    [files |-> files, generated |-> names, stamped |-> NoPath,
     restored |-> 0, raised |-> FALSE]

RECURSIVE RestoreItems(_, _, _)
\* the loop of restore_profiles_from_backup over items i, i+1, ...
RestoreItems(st, items, i) ==
    IF i > Len(items) \/ st.raised THEN st
    ELSE IF items[i] = NonDictItem THEN RestoreItems(st, items, i + 1)
    ELSE IF ValidateRaises(items[i]) THEN [st EXCEPT !.raised = TRUE]
    ELSE IF ~validate_profile_data(items[i]) THEN RestoreItems(st, items, i + 1)
    ELSE LET named  == items[i]["_file"] # None
             stamp  == IF st.stamped # NoPath THEN st.stamped
                       ELSE FreshName(st.generated)
             target == IF named THEN PathName(items[i]["_file"]) ELSE stamp
         IN RestoreItems([files |-> [st.files EXCEPT ![target] =
                                        [exists |-> TRUE, data |-> items[i]]],
                          generated |-> st.generated \cup {target},
                          stamped |-> IF named THEN st.stamped ELSE stamp,
                          restored |-> st.restored + 1,
                          raised |-> FALSE], items, i + 1)

\* import_backup_action on the backup file: restore_profiles_from_backup, then
\* the list is reloaded
import_backup_action ==
    /\ appOpen
    /\ backup.exists
    /\ LET st == RestoreItems(RestoreStart(profiles, generated), backup.items, 1)
       IN /\ profiles' = st.files
          /\ generated' = st.generated
          /\ profiles_cache' = IF st.raised THEN profiles_cache
                               ELSE load_all_profiles(profiles')
          /\ ret' = IF st.raised THEN <<"AttributeError">> ELSE <<"restored", st.restored>>
    /\ UNCHANGED extVars
    /\ call' = [op |-> "import_backup_action", args |-> <<>>]
    /\ UNCHANGED <<history, current_profile, current_profile_file,
                   backup, appOpen>>

\* on_close with the autosave switch on or off and the form holding data
on_close(autosave, data) ==
    /\ appOpen
    /\ UNCHANGED extVars
    /\ call' = [op |-> "on_close", args |-> <<autosave, data>>]
    /\ IF /\ autosave
          /\ \E k \in FieldKeys : data[k] # EmptyStr
          /\ validate_profile_data(data)
       THEN \E target \in save_profile_targets(current_profile_file) :
                /\ profiles' = [profiles EXCEPT ![target] = [exists |-> TRUE, data |-> data]]
                /\ generated' = generated \cup {target}
       ELSE UNCHANGED <<profiles, generated>>
    /\ appOpen' = FALSE
    /\ current_profile' = NoProfile
    /\ current_profile_file' = NoPath
    /\ profiles_cache' = <<>>
    /\ ret' = None
    /\ UNCHANGED <<history, backup>>

(***************************************************************************)
(* The report extraction engine (src/reporting/report_extractor.py).       *)
(* A report entry is a profile document; the _timestamp key get_reports    *)
(* adds to it is left out.                                                 *)
(***************************************************************************)
NoMonth == 0
NoYear == 0
NoName == <<"None">>

\* ReportExtractor._parse_date: DD/MM/YYYY first, then YYYY-MM-DD
parse_date(date_str) ==
    IF StrptimeDMY(date_str).ok THEN StrptimeDMY(date_str)
    ELSE StrptimeYMD(date_str)

matches_date_criteria(report_date, criteria) ==
    IF criteria.month = NoMonth /\ criteria.year = NoYear THEN TRUE
    ELSE LET report_dt == parse_date(report_date)
         IN /\ report_dt.ok
            /\ ~(criteria.year # NoYear /\ report_dt.y # criteria.year)
            /\ ~(criteria.month # NoMonth /\ report_dt.m # criteria.month)

\* the characters of a file name's stem
StemChars(p) == stems[p]

IsPrefix(a, b) == Len(a) <= Len(b) /\ SubSeq(b, 1, Len(a)) = a

RECURSIVE BeforeSep(_)
\* stem.split(' - ')[0]
BeforeSep(chars) ==
    IF Len(chars) < 3 THEN chars
    ELSE IF SubSeq(chars, 1, 3) = <<" ", "-", " ">> THEN <<>>
    ELSE <<Head(chars)>> \o BeforeSep(Tail(chars))

\* self.history_dir.glob(f"{base_name}*.jsonl") matches the history file of q
GlobMatches(p, q) == history[q].exists /\ IsPrefix(BeforeSep(StemChars(p)), StemChars(q))

RECURSIVE SnapshotsOf(_, _, _)
\* the snapshots of the entry lines i, i+1, ... of one history file, each
\* with _file set to the profile path
SnapshotsOf(p, lines, i) ==
    IF i > Len(lines) THEN <<>>
    ELSE (IF lines[i].kind = "entry"
          THEN <<[lines[i].snapshot EXCEPT !["_file"] = FileStr(p)]>>
          ELSE <<>>) \o SnapshotsOf(p, lines, i + 1)

RECURSIVE HistoryOfFiles(_, _)
HistoryOfFiles(p, i) ==
    IF i > Len(RecordOrder) THEN <<>>
    ELSE (IF GlobMatches(p, RecordOrder[i])
          THEN SnapshotsOf(p, history[RecordOrder[i]].lines, 1)
          ELSE <<>>) \o HistoryOfFiles(p, i + 1)

\* ReportExtractor._load_profile_history(profile_path) when it does not raise
extractor_load_profile_history(p) == HistoryOfFiles(p, 1)

\* _load_profile_history raises: 'snapshot' in entry is a TypeError for a
\* number, reading bytes that are not UTF-8 a UnicodeDecodeError; it catches
\* json.JSONDecodeError for a line and IOError, OSError for a file only
ExtractorLoadRaises(p) ==
    \E q \in RecordIds :
        /\ GlobMatches(p, q)
        /\ \E i \in 1..Len(history[q].lines) :
              history[q].lines[i].kind \in {"value", "undecodable"}

\* the identifier get_reports gives an entry
entry_id(entry) ==
    <<Get(entry, "date", EmptyStr), Get(entry, "quran_surah", EmptyStr),
      Get(entry, "topic", EmptyStr)>>

RECURSIVE Dedup(_, _, _, _)
\* the entries of all_entries[i..] appended by the loop over all_entries
Dedup(all_entries, i, seen, criteria) ==
    IF i > Len(all_entries) THEN <<>>
    ELSE LET entry == all_entries[i]
         IN IF /\ entry_id(entry) \notin seen
               /\ matches_date_criteria(Get(entry, "date", EmptyStr), criteria)
            THEN <<entry>> \o Dedup(all_entries, i + 1, seen \cup {entry_id(entry)}, criteria)
            ELSE Dedup(all_entries, i + 1, seen, criteria)

DefaultSortDate == <<"1", "9", "7", "0", "-", "0", "1", "-", "0", "1">>

\* the key of the first sort: strptime(x.get('date', '1970-01-01'), '%d/%m/%Y')
SortKey(entry) == StrptimeDMY(Get(entry, "date", DefaultSortDate))

\* the first sort raises ValueError
SortRaises(list) == \E i \in 1..Len(list) : ~SortKey(list[i]).ok

RECURSIVE InsertDesc(_, _)
InsertDesc(sorted, x) ==
    IF sorted = <<>> THEN <<x>>
    ELSE IF DateOrd(SortKey(Head(sorted))) >= DateOrd(SortKey(x))
         THEN <<Head(sorted)>> \o InsertDesc(Tail(sorted), x)
         ELSE <<x>> \o sorted

RECURSIVE SortDesc(_)
\* list.sort(key = parsed date, reverse = True): stable
SortDesc(list) ==
    IF list = <<>> THEN <<>>
    ELSE InsertDesc(SortDesc(SubSeq(list, 1, Len(list) - 1)), list[Len(list)])

RECURSIVE InsertAsc(_, _)
InsertAsc(sorted, x) ==
    IF sorted = <<>> THEN <<x>>
    ELSE IF StrLessEq(Get(Head(sorted), "date", EmptyStr), Get(x, "date", EmptyStr))
         THEN <<Head(sorted)>> \o InsertAsc(Tail(sorted), x)
         ELSE <<x>> \o sorted

RECURSIVE SortAsc(_)
\* student_reports.sort(key = the date string): stable
SortAsc(list) ==
    IF list = <<>> THEN <<>>
    ELSE InsertAsc(SortAsc(SubSeq(list, 1, Len(list) - 1)), list[Len(list)])

\* the student names of the report specification
Names == {<<"A", "l", "i">>, <<"S", "a", "r", "a">>}

NoReports == [n \in Names |-> <<>>]

\* the first mode filter, on the list sorted newest first
FirstModeFilter(list, mode) ==
    IF mode = "first" /\ list # <<>> THEN <<list[Len(list)]>>
    ELSE IF mode = "last" /\ list # <<>> THEN <<list[1]>>
    ELSE list

\* one turn of the loop over the profile files: all_reports after the file, or
\* raised when reading the history or the sort raised an exception that the
\* loop does not catch
process_profile(state, p, criteria) ==
    LET current_data == [profiles[p].data EXCEPT !["_file"] = FileStr(p)]
        student_name == Get(current_data, "student_name", <<"U", "n", "k", "n", "o", "w", "n">>)
        history_entries == extractor_load_profile_history(p)
        all_entries == <<current_data>> \o history_entries
        appended == state.reports[student_name] \o Dedup(all_entries, 1, {}, criteria)
        reduced == FirstModeFilter(SortDesc(appended), criteria.mode)
    IN IF state.raised THEN state
       ELSE IF criteria.student_name # NoName /\ student_name # criteria.student_name
       THEN state
       ELSE IF ExtractorLoadRaises(p) THEN [state EXCEPT !.raised = TRUE]
       ELSE IF SortRaises(appended) THEN [state EXCEPT !.raised = TRUE]
       ELSE [state EXCEPT !.reports[student_name] = reduced \o extractor_load_profile_history(p)]

RECURSIVE process_profiles(_, _, _, _)
process_profiles(state, order, i, criteria) ==
    IF i > Len(order) THEN state
    ELSE process_profiles(process_profile(state, order[i], criteria), order, i + 1, criteria)

\* the second pass: the reports that match the date criteria
DateFiltered(reports, criteria) ==
    SelectSeq(reports, LAMBDA r : matches_date_criteria(Get(r, "date", EmptyStr), criteria))

\* the second pass over one student's reports
filter_student(reports, criteria) ==
    LET student_reports == SortAsc(DateFiltered(reports, criteria))
    IN IF student_reports = <<>> THEN <<>>
       ELSE IF criteria.mode = "first" THEN <<student_reports[1]>>
       ELSE IF criteria.mode = "last" THEN <<student_reports[Len(student_reports)]>>
       ELSE student_reports

\* get_reports(criteria) when _get_all_profiles lists the files in this order;
\* a student without reports is no key of the result
get_reports(criteria, order) ==
    LET all_reports == process_profiles([raised |-> FALSE, reports |-> NoReports],
                                        order, 1, criteria)
    IN IF all_reports.raised THEN [raised |-> TRUE, reports |-> NoReports]
       ELSE [raised |-> FALSE,
             reports |-> [n \in Names |-> filter_student(all_reports.reports[n], criteria)]]

(***************************************************************************)
(* SpecReports: get_reports on stores the application can leave behind.    *)
(***************************************************************************)
Date010623 == <<"0", "1", "/", "0", "6", "/", "2", "0", "2", "3">>
Date011224 == <<"0", "1", "/", "1", "2", "/", "2", "0", "2", "4">>
Date150624 == <<"1", "5", "/", "0", "6", "/", "2", "0", "2", "4">>
DateLegacy == <<"2", "0", "2", "4", "-", "0", "6", "-", "1", "5">>

\* dates validate_profile_data lets save_profile store: three DD/MM/YYYY
\* dates, a YYYY-MM-DD date and no date
ReportDates == {Date010623, Date011224, Date150624, DateLegacy, EmptyStr}

ReportDoc(n, dt, t, h) ==
    [k \in Keys |->
        CASE k = "student_name" -> n
          [] k = "date"         -> dt
          [] k = "quran_surah"  -> <<"S">>
          [] k = "topic"        -> t
          [] k = "homework"     -> h
          [] OTHER              -> None]

\* the states of the first profile: what the form saved
ReportDocs ==
    {ReportDoc(<<"A", "l", "i">>, dt, t, h) :
        dt \in ReportDates, t \in {<<"A">>, <<"B">>}, h \in {<<"x">>, <<"y">>}}

\* the states of the second profile, of the same or of another student
OtherDocs ==
    {ReportDoc(n, Date150624, <<"A">>, <<"x">>) : n \in Names}

\* the change save_profile_action logs for a profile loaded from the list
FileOnlyChange(p) == [k \in {"_file"} |-> [old |-> FileStr(p), new |-> None]]

\* the log of p after the states of snaps were saved in turn
LogOf(p, snaps) ==
    [i \in 1..Len(snaps) |->
        [kind |-> "entry", version |-> i, profile_file |-> p,
         changes |-> IF i > 1 /\ snaps[i - 1] # snaps[i]
                     THEN compute_profile_diff(snaps[i - 1], snaps[i])
                     ELSE FileOnlyChange(p),
         snapshot |-> make_snapshot(p, snaps[i])]]

\* the states the log of the first profile has snapshots of
HistoryDocs ==
    {ReportDoc(<<"A", "l", "i">>, dt, <<"A">>, <<"x">>) : dt \in ReportDates}

SnapshotLists == UNION {[1..n -> HistoryDocs] : n \in 0..MaxHist}

\* the history files of p: the log of saved states, or one damaged line
ReportLogs(p) ==
    {LogOf(p, snaps) : snaps \in SnapshotLists}
        \cup {<<DamagedLine(kind)>> : kind \in LineKinds \ {"entry"}}

ReportCriteria ==
    [student_name : {NoName, <<"A", "l", "i">>}, month : {NoMonth, 6},
     year : {NoYear, 2024}, mode : {"first", "last", "all"}]

\* the orders in which glob can list the stored profile files
FileOrders ==
    {order \in {<<>>, <<"p1">>, <<"p2">>, <<"p1", "p2">>, <<"p2", "p1">>} :
        {order[i] : i \in 1..Len(order)} = {p \in RecordIds : profiles[p].exists}}

InitReports ==
    /\ \E cur \in ReportDocs, lines \in ReportLogs("p1") :
          /\ \E other \in {NoProfileFile} \cup {[exists |-> TRUE, data |-> o] : o \in OtherDocs} :
                profiles = [p \in RecordIds |->
                               IF p = "p1" THEN [exists |-> TRUE, data |-> cur] ELSE other]
          /\ history = [p \in RecordIds |->
                           IF p = "p1" /\ lines # <<>>
                           THEN [exists |-> TRUE, lines |-> lines]
                           ELSE NoHistoryFile]
    /\ generated = {p \in RecordIds : profiles[p].exists}
    /\ current_profile = NoProfile
    /\ current_profile_file = NoPath
    /\ profiles_cache = <<>>
    /\ backup = [exists |-> FALSE, items |-> <<>>]
    /\ appOpen = FALSE
    /\ InitExt
    /\ call = [op |-> "none", args |-> <<>>]
    /\ ret = None

get_reports_call(criteria, order) ==
    /\ call.op = "none"
    /\ UNCHANGED extVars
    /\ call' = [op |-> "get_reports", args |-> <<criteria, order>>]
    /\ ret' = get_reports(criteria, order)
    /\ UNCHANGED <<profiles, history, generated, current_profile,
                   current_profile_file, profiles_cache, backup, appOpen>>

NextReports == \E criteria \in ReportCriteria, order \in FileOrders :
                  get_reports_call(criteria, order)

SpecReports == InitReports /\ [][NextReports]_vars

(***************************************************************************)
(* SpecOwnLog: get_reports on two records that both have a log, where the  *)
(* name of the second file may begin with the name of the first.           *)
(***************************************************************************)
\* the second file is named after the first: a copy, or a longer name
CopyStem == <<"p", "1", " ", "-", " ", "C", "o", "p", "y">>
LongerStem == <<"p", "1", "0">>

FileNamings ==
    {DefaultStems, [DefaultStems EXCEPT !["p2"] = CopyStem],
     [DefaultStems EXCEPT !["p2"] = LongerStem]}

\* the saved states of the first record have the topic A, those of the
\* second the topic B
OwnDocs(p) ==
    {ReportDoc(<<"A", "l", "i">>, dt, IF p = "p1" THEN <<"A">> ELSE <<"B">>, <<"x">>) :
        dt \in {Date010623, Date011224}}

OwnLogs(p) == {LogOf(p, snaps) : snaps \in UNION {[1..n -> OwnDocs(p)] : n \in 0..1}}

InitOwnLog ==
    /\ \E n \in Names :
          profiles = [p \in RecordIds |->
                         [exists |-> TRUE,
                          data |-> IF p = "p1"
                                   THEN ReportDoc(<<"A", "l", "i">>, Date150624, <<"A">>, <<"x">>)
                                   ELSE ReportDoc(n, Date150624, <<"B">>, <<"x">>)]]
    /\ \E l1 \in OwnLogs("p1"), l2 \in OwnLogs("p2") :
          history = [p \in RecordIds |->
                        LET lines == IF p = "p1" THEN l1 ELSE l2
                        IN IF lines = <<>> THEN NoHistoryFile
                           ELSE [exists |-> TRUE, lines |-> lines]]
    /\ generated = RecordIds
    /\ current_profile = NoProfile
    /\ current_profile_file = NoPath
    /\ profiles_cache = <<>>
    /\ backup = [exists |-> FALSE, items |-> <<>>]
    /\ appOpen = FALSE
    /\ config = OriginalDefaults
    /\ DEFAULT_SETTINGS = OriginalDefaults
    /\ aliased = DOMAIN OriginalDefaults.v
    /\ settings_file = [exists |-> TRUE, data |-> OriginalDefaults]
    /\ config_calls = <<>>
    /\ submission = NoSubmission
    /\ writers = [w \in Writers |-> IdleWriter]
    /\ stems \in FileNamings
    /\ call = [op |-> "none", args |-> <<>>]
    /\ ret = None

NextOwnLog == \E criteria \in ReportCriteria, order \in FileOrders :
                 get_reports_call(criteria, order)

SpecOwnLog == InitOwnLog /\ [][NextOwnLog]_vars

(***************************************************************************)
(* SpecApp, continued: the report dialog and the specification.            *)
(***************************************************************************)
\* the criteria the report dialog of the application specification asks for
AppCriteria ==
    [student_name : {NoName}, month : {NoMonth}, year : {NoYear},
     mode : {"all", "last"}]

\* ReportDialog._generate_report: get_reports on the stored files
generate_report(criteria, order) ==
    /\ appOpen
    /\ UNCHANGED extVars
    /\ call' = [op |-> "_generate_report", args |-> <<criteria, order>>]
    /\ ret' = get_reports(criteria, order)
    /\ UNCHANGED <<profiles, history, generated, current_profile,
                   current_profile_file, profiles_cache, backup, appOpen>>

InitApp ==
    /\ profiles = [p \in RecordIds |-> NoProfileFile]
    /\ history = [p \in RecordIds |-> NoHistoryFile]
    /\ generated = {}
    /\ current_profile = NoProfile
    /\ current_profile_file = NoPath
    /\ profiles_cache = <<>>
    /\ backup = [exists |-> FALSE, items |-> <<>>]
    /\ appOpen = FALSE
    /\ InitExt
    /\ call = [op |-> "none", args |-> <<>>]
    /\ ret = None

NextApp ==
    \/ Launch
    \/ \E i \in 1..Len(RecordOrder) : load_profile_into_form(i)
    \/ add_new_student
    \/ \E data \in FormDocs, fail \in SaveFailures : save_profile_action(data, fail)
    \/ delete_profile_action
    \/ backup_profiles_action
    \/ import_backup_action
    \/ \E autosave \in BOOLEAN, data \in FormDocs \cup {BlankForm} : on_close(autosave, data)
    \/ \E criteria \in AppCriteria, order \in FileOrders : generate_report(criteria, order)

SpecApp == InitApp /\ [][NextApp]_vars

(***************************************************************************)
(* SpecMatch: _matches_date_criteria applied to date strings and criteria. *)
(***************************************************************************)
\* a month/day/year date and a day-month-year date with dashes, two forms
\* validate_profile_data accepts; a date with month 13
DateMDY == <<"1", "2", "/", "3", "1", "/", "2", "0", "2", "4">>
DateDMYDash == <<"3", "1", "-", "1", "2", "-", "2", "0", "2", "4">>
DateMonth13 == <<"1", "5", "/", "1", "3", "/", "2", "0", "2", "4">>

MatchDates == ReportDates \cup {BadDate, DateMDY, DateDMYDash, DateMonth13}

MatchCriteria ==
    [student_name : {NoName}, month : {NoMonth, 1, 6, 12},
     year : {NoYear, 2023, 2024}, mode : {"all"}]

matches_date_criteria_call(report_date, criteria) ==
    /\ UNCHANGED extVars
    /\ call' = [op |-> "_matches_date_criteria", args |-> <<report_date, criteria>>]
    /\ ret' = matches_date_criteria(report_date, criteria)
    /\ UNCHANGED <<profiles, history, generated, current_profile,
                   current_profile_file, profiles_cache, backup, appOpen>>

NextMatch == \E report_date \in MatchDates, criteria \in MatchCriteria :
                matches_date_criteria_call(report_date, criteria)

SpecMatch == InitCommon /\ [][NextMatch]_vars

(***************************************************************************)
(* SpecStore: save_profile and restore_profiles_from_backup called on the  *)
(* profile files with documents of any content.                            *)
(***************************************************************************)
StoreDoc(n, dt, f) ==
    [k \in Keys |->
        CASE k = "student_name" -> n
          [] k = "date"         -> dt
          [] k = "quran_surah"  -> <<"S">>
          [] k = "topic"        -> <<"A">>
          [] k = "homework"     -> EmptyStr
          [] OTHER              -> f]

\* student names: no key, empty, blank, a name, no string
StoreNames == {None, EmptyStr, <<" ">>, <<"A", "l", "i">>, NonString}

\* dates: no key, empty, the five forms validate_profile_data tries, text
\* that is no date, no string
StoreDates ==
    {None, EmptyStr, AppDate, DateLegacy, DateMDY, DateDMYDash, BadDate, NonString}

StoreDocs ==
    {StoreDoc(n, AppDate, None) : n \in StoreNames}
        \cup {StoreDoc(<<"A", "l", "i">>, dt, None) : dt \in StoreDates}

\* the items of a backup file: records with and without _file, records that
\* fail validation, a record whose name is no string, an item that is no
\* JSON object
StoreItems ==
    {StoreDoc(<<"A", "l", "i">>, AppDate, FileStr("p1")),
     StoreDoc(<<"A", "l", "i">>, DateMDY, FileStr("p2")),
     StoreDoc(<<"A", "l", "i">>, AppDate, None),
     StoreDoc(EmptyStr, AppDate, FileStr("p1")),
     StoreDoc(<<"A", "l", "i">>, BadDate, FileStr("p2")),
     StoreDoc(NonString, AppDate, FileStr("p2")),
     NonDictItem}

StoreBackups == UNION {[1..n -> StoreItems] : n \in 0..MaxItems}

\* save_profile(profile_data, filename)
save_profile(data, filename) ==
    /\ UNCHANGED extVars
    /\ call' = [op |-> "save_profile", args |-> <<data, filename>>]
    /\ IF ValidateRaises(data)
       THEN /\ ret' = <<"AttributeError">>
            /\ UNCHANGED <<profiles, generated>>
       ELSE IF ~validate_profile_data(data)
       THEN /\ ret' = <<"ValueError">>
            /\ UNCHANGED <<profiles, generated>>
       ELSE LET target == IF filename # NoPath THEN filename
                          ELSE FreshName(generated)
            IN /\ target # NoPath
               /\ profiles' = [profiles EXCEPT ![target] = [exists |-> TRUE, data |-> data]]
               /\ generated' = generated \cup {target}
               /\ ret' = FileStr(target)
    /\ UNCHANGED <<history, current_profile, current_profile_file, profiles_cache,
                   backup, appOpen>>

\* restore_profiles_from_backup(backup_path) on a backup file holding items
restore_profiles_from_backup(items) ==
    LET st == RestoreItems(RestoreStart(profiles, generated), items, 1)
    IN /\ NoPath \notin st.generated
       /\ UNCHANGED extVars
       /\ call' = [op |-> "restore_profiles_from_backup", args |-> <<items>>]
       /\ profiles' = st.files
       /\ generated' = st.generated
       /\ ret' = IF st.raised THEN <<"AttributeError">> ELSE <<"restored", st.restored>>
       /\ UNCHANGED <<history, current_profile, current_profile_file, profiles_cache,
                      backup, appOpen>>

NextStore ==
    \/ \E data \in StoreDocs, filename \in {NoPath} \cup RecordIds :
          save_profile(data, filename)
    \/ \E items \in StoreBackups : restore_profiles_from_backup(items)

SpecStore == InitApp /\ [][NextStore]_vars

(***************************************************************************)
(* The settings store: ConfigManager over _config, DEFAULT_SETTINGS and    *)
(* the settings file.  A key is the list key.split(".") gives.  aliased    *)
(* holds the top-level keys whose value in _config is the very object      *)
(* DEFAULT_SETTINGS holds (dict.copy() is shallow); config_calls is the    *)
(* list of the mutator calls made so far.                                  *)
(***************************************************************************)
\* recent[:10]
RecentLimit == 10

\* no value: the KeyError or TypeError of a lookup
Missing == [t |-> "missing", v |-> ""]

\* d[k] = x on a dict value
DictSet(d, k, x) == Dict([j \in DOMAIN d.v \cup {k} |-> IF j = k THEN x ELSE d.v[j]])

RECURSIVE GetPath(_, _, _)
\* the loop of get: value = value[k] for every k of keys, default on KeyError
\* and on TypeError (a string, number or list indexed by a string)
GetPath(value, keys, default) ==
    IF keys = <<>> THEN value
    ELSE IF value.t = "dict" /\ Head(keys) \in DOMAIN value.v
    THEN GetPath(value.v[Head(keys)], Tail(keys), default)
    ELSE default

\* ConfigManager.get(key, default)
get(key, default) == GetPath(config, key, default)

\* the test of set: keys[-1] not in cfg or cfg[keys[-1]] != value, after the
\* loop made every value on the way a dict
Changed(cfg, keys, value) ==
    LET cur == GetPath(cfg, keys, Missing)
    IN cur = Missing \/ cur # value

\* a mutant that stores the value under the last part of the key only
SetPath_top_level(cfg, keys, value) ==
    DictSet(cfg, keys[Len(keys)], value)

RECURSIVE SetPath(_, _, _)
\* the dict set leaves: every part of the key but the last names a dict (a
\* missing one or a value that is no dict becomes {}), the last part is
\* bound to value when that changes something
SetPath(cfg, keys, value) ==
    IF Len(keys) = 1
    THEN IF Changed(cfg, keys, value) THEN DictSet(cfg, keys[1], value) ELSE cfg
    ELSE LET k     == Head(keys)
             child == IF k \notin DOMAIN cfg.v \/ cfg.v[k].t # "dict"
                      THEN Dict(<<>>) ELSE cfg.v[k]
         IN DictSet(cfg, k, SetPath(child, Tail(keys), value))

\* set works inside the object _config[keys[0]] holds: the key has several
\* parts and the first names a dict
MutatesInPlace(cfg, keys) ==
    /\ Len(keys) > 1
    /\ keys[1] \in DOMAIN cfg.v
    /\ cfg.v[keys[1]].t = "dict"

\* DEFAULT_SETTINGS after _config[k] was changed to x inside its object
DefaultsAfter(defaults, shared, k, x) ==
    IF k \in shared THEN DictSet(defaults, k, x) ELSE defaults

\* the state of the store: _config, DEFAULT_SETTINGS, the aliased keys, the
\* settings file, what the call returned
ConfigState(cfg, defaults, shared, file, result) ==
    [config |-> cfg, DEFAULT_SETTINGS |-> defaults, aliased |-> shared,
     settings_file |-> file, result |-> result]

\* set(key, value, save) on a state of the store; fail: save_settings fails
\* to write the temporary file, and set returns False
SetOn(st, keys, value, save, fail) ==
    LET cfg     == SetPath(st.config, keys, value)
        changed == Changed(st.config, keys, value)
        inPlace == MutatesInPlace(st.config, keys)
        saved   == changed /\ save /\ ~fail
    IN ConfigState(cfg,
                   IF inPlace
                   THEN DefaultsAfter(st.DEFAULT_SETTINGS, st.aliased, keys[1],
                                      cfg.v[keys[1]])
                   ELSE st.DEFAULT_SETTINGS,
                   IF inPlace \/ ~changed THEN st.aliased ELSE st.aliased \ {keys[1]},
                   IF saved THEN [exists |-> TRUE, data |-> cfg] ELSE st.settings_file,
                   IF changed /\ save /\ fail THEN <<"False">> ELSE <<"True">>)

\* the store as the variables hold it
CurrentConfig == ConfigState(config, DEFAULT_SETTINGS, aliased, settings_file, None)

RECURSIVE DeepMerge(_, _)
\* _deep_merge(default, override): a new dict; a key both hold as dicts is
\* merged into a new dict, every other key of override replaces the default
DeepMerge(default, override) ==
    Dict([k \in DOMAIN default.v \cup DOMAIN override.v |->
            IF k \notin DOMAIN override.v THEN default.v[k]
            ELSE IF /\ k \in DOMAIN default.v
                    /\ default.v[k].t = "dict"
                    /\ override.v[k].t = "dict"
            THEN DeepMerge(default.v[k], override.v[k])
            ELSE override.v[k]])

\* a mutant that removes nothing
Remove_nothing(l, x) == l

RECURSIVE Remove(_, _)
\* list.remove(x): the list without the first x
Remove(l, x) ==
    IF l = <<>> THEN <<>>
    ELSE IF Head(l) = x THEN Tail(l)
    ELSE <<Head(l)>> \o Remove(Tail(l), x)

\* l[:n]
Take(l, n) == SubSeq(l, 1, IF Len(l) < n THEN Len(l) ELSE n)

\* the store after the object _config[k] holds was changed to x in place
InPlace(st, k, x) ==
    [st EXCEPT !.config = DictSet(st.config, k, x),
               !.DEFAULT_SETTINGS = DefaultsAfter(st.DEFAULT_SETTINGS, st.aliased, k, x)]

\* most mutator and constructor calls of a run
MaxConfigCalls == 3

\* a mutator or constructor call op(args) that leaves the store as st
ConfigStep(op, args, st) ==
    /\ Len(config_calls) < MaxConfigCalls
    /\ config' = st.config
    /\ DEFAULT_SETTINGS' = st.DEFAULT_SETTINGS
    /\ aliased' = st.aliased
    /\ settings_file' = st.settings_file
    /\ config_calls' = Append(config_calls, [op |-> op, args |-> args])
    /\ call' = [op |-> op, args |-> args]
    /\ ret' = st.result

\* ConfigManager.set(key, value, save)
set(key, value, save, fail) ==
    /\ ConfigStep("set", <<key, value, save>>,
                  SetOn(CurrentConfig, key, value, save, fail))
    /\ UNCHANGED <<storeVars, submission, writers, stems>>

\* ConfigManager.set_teacher_info(name=..., max_students=...); the model's
\* teacher dict keeps two of the five fields.  teacher is the object
\* _config["teacher"] holds, update changes it in place, and set then
\* compares the object with itself
set_teacher_info(name, max_students, fail) ==
    /\ LET has     == "teacher" \in DOMAIN config.v
           teacher == IF has THEN config.v["teacher"] ELSE DEFAULT_SETTINGS.v["teacher"]
       IN IF teacher.t # "dict"
          THEN ConfigStep("set_teacher_info", <<name, max_students>>,
                          [CurrentConfig EXCEPT !.result = <<"AttributeError">>])
          ELSE LET updated == DictSet(DictSet(teacher, "name", Str(name)),
                                      "max_students", Num(max_students))
                   st1     == IF has THEN InPlace(CurrentConfig, "teacher", updated)
                              ELSE CurrentConfig
                   st2     == SetOn(st1, <<"teacher">>, updated, TRUE, fail)
               IN ConfigStep("set_teacher_info", <<name, max_students>>,
                             [st2 EXCEPT !.result = None])
    /\ UNCHANGED <<storeVars, submission, writers, stems>>

\* ConfigManager.set_theme(theme)
set_theme(theme, fail) ==
    /\ ConfigStep("set_theme", <<theme>>,
                  IF theme \in {"light", "dark", "system"}
                  THEN [SetOn(CurrentConfig, <<"theme">>, Str(theme), TRUE, fail)
                           EXCEPT !.result = None]
                  ELSE CurrentConfig)
    /\ UNCHANGED <<storeVars, submission, writers, stems>>

\* ConfigManager.add_recent_file(file_path): recent is the object
\* _config["recent_files"] holds, remove and insert change it in place, and
\* set is given the copy recent[:10]
add_recent_file(file_path, fail) ==
    /\ LET has    == "recent_files" \in DOMAIN config.v
           recent == IF has THEN config.v["recent_files"] ELSE List(<<>>)
       IN IF recent.t # "list"
          THEN ConfigStep("add_recent_file", <<file_path>>,
                          [CurrentConfig EXCEPT !.result = <<"AttributeError">>])
          ELSE LET moved == List(<<file_path>> \o Remove(recent.v, file_path))
                   st1   == IF has THEN InPlace(CurrentConfig, "recent_files", moved)
                            ELSE CurrentConfig
                   st2   == SetOn(st1, <<"recent_files">>,
                                  List(Take(moved.v, RecentLimit)), TRUE, fail)
               IN ConfigStep("add_recent_file", <<file_path>>,
                             [st2 EXCEPT !.result = None])
    /\ UNCHANGED <<storeVars, submission, writers, stems>>

\* ConfigManager.get_recent_files()
get_recent_files == get(<<"recent_files">>, List(<<>>))

\* ConfigManager.set_google_form_settings(form_url, auto_submit, retries,
\* retry_delay) with a form_url that strip leaves alone and whole numbers;
\* the model's google_form dict keeps form_url and retries
set_google_form_settings(form_url, retries, fail) ==
    /\ LET settings == Dict([f \in {"form_url", "retries"} |->
                               IF f = "form_url" THEN Str(form_url)
                               ELSE Num(IF retries < 0 THEN 0 ELSE retries)])
           st1 == SetOn(CurrentConfig, <<"google_form_url">>, Str(form_url), FALSE, FALSE)
       IN ConfigStep("set_google_form_settings", <<form_url, retries>>,
                     SetOn(st1, <<"google_form">>, settings, TRUE, fail))
    /\ UNCHANGED <<storeVars, submission, writers, stems>>

\* ConfigManager._instance = None; ConfigManager(): the singleton is built
\* again in the same process (as the tests' setUp does), after the settings
\* file was removed or with the file the store wrote.  json.dump and
\* json.load give back the value written
ConfigManager(no_file) ==
    /\ LET exists == settings_file.exists /\ ~no_file
           cfg    == IF exists THEN DeepMerge(DEFAULT_SETTINGS, settings_file.data)
                     ELSE DEFAULT_SETTINGS
       IN ConfigStep("ConfigManager", <<no_file>>,
                     ConfigState(cfg, DEFAULT_SETTINGS,
                                 IF exists
                                 THEN DOMAIN DEFAULT_SETTINGS.v \ DOMAIN settings_file.data.v
                                 ELSE DOMAIN DEFAULT_SETTINGS.v,
                                 IF exists THEN settings_file
                                 ELSE [exists |-> TRUE, data |-> cfg],
                                 None))
    /\ UNCHANGED <<storeVars, submission, writers, stems>>

\* ConfigManager.get(key, default) as a call
get_call(key, default) ==
    /\ call' = [op |-> "get", args |-> <<key, default>>]
    /\ ret' = <<get(key, default)>>
    /\ UNCHANGED <<storeVars, configVars, submission, writers, stems>>

(***************************************************************************)
(* SpecConfig: the operations of the settings store in any order.          *)
(***************************************************************************)
\* keys: a top-level key, a nested key, a key below a string, a key below
\* nothing, the list
ConfigKeys ==
    {<<"theme">>, <<"teacher", "name">>, <<"theme", "mode">>, <<"test", "key">>,
     <<"recent_files">>}

ConfigValues == {Str(""), Str("dark")}

\* save and whether writing the file fails; set_google_form_settings is the
\* caller that passes save = False
SaveModes == {<<TRUE, FALSE>>, <<TRUE, TRUE>>}

NextConfig ==
    \/ \E key \in ConfigKeys, value \in ConfigValues,
          mode \in SaveModes : set(key, value, mode[1], mode[2])
    \/ \E name \in {"T"}, fail \in BOOLEAN :
          set_teacher_info(name, 30, fail)
    \/ \E theme \in {"dark", "blue"} : set_theme(theme, FALSE)
    \/ \E file_path \in {"a.json", "b.json"} :
          add_recent_file(file_path, FALSE)
    \/ \E form_url \in {"", "http://f"} :
          set_google_form_settings(form_url, 3, FALSE)
    \/ \E no_file \in BOOLEAN : ConfigManager(no_file)
    \/ \E key \in ConfigKeys : get_call(key, Str("default"))

SpecConfig == InitCommon /\ [][NextConfig]_vars

(***************************************************************************)
(* SpecRecent: add_recent_file called on a store that was loaded from a    *)
(* settings file holding nine recent files.                                *)
(***************************************************************************)
\* the paths added before the settings file was written, oldest first
RecentBefore == <<"f1", "f2", "f3", "f4", "f5", "f6", "f7", "f8", "f9">>

\* recent_files as the settings file holds it, most recent first
RecentStored == [i \in 1..Len(RecentBefore) |-> RecentBefore[Len(RecentBefore) + 1 - i]]

\* the oldest, a middle and the newest stored path, and new paths
RecentInputs == {"f1", "f5", "f9", "g1", "g2", "g3"}

\* the store after ConfigManager() loaded the settings file
InitRecent ==
    LET file == DictSet(OriginalDefaults, "recent_files", List(RecentStored))
    IN /\ profiles = [p \in RecordIds |-> NoProfileFile]
       /\ history = [p \in RecordIds |-> NoHistoryFile]
       /\ generated = {}
       /\ current_profile = NoProfile
       /\ current_profile_file = NoPath
       /\ profiles_cache = <<>>
       /\ backup = [exists |-> FALSE, items |-> <<>>]
       /\ appOpen = FALSE
       /\ call = [op |-> "none", args |-> <<>>]
       /\ ret = None
       /\ config = DeepMerge(OriginalDefaults, file)
       /\ DEFAULT_SETTINGS = OriginalDefaults
       /\ aliased = DOMAIN OriginalDefaults.v \ DOMAIN file.v
       /\ settings_file = [exists |-> TRUE, data |-> file]
       /\ config_calls = <<>>
       /\ submission = NoSubmission
       /\ writers = [w \in Writers |-> IdleWriter]
       /\ stems = DefaultStems

NextRecent == \E file_path \in RecentInputs : add_recent_file(file_path, FALSE)

SpecRecent == InitRecent /\ [][NextRecent]_vars

(***************************************************************************)
(* SpecSanitize: sanitize_filename called with names of any content, on a  *)
(* system whose paths are POSIX paths.                                     *)
(***************************************************************************)
\* filename[:255]
NameLimit == 255

\* the characters of the class [<>:"/\\|?*]
DangerousChars == {"<", ">", ":", "\"", "/", "\\", "|", "?", "*"}

\* Path(filename).name: the last part of the path, where empty parts and
\* the parts "." do not count.  A part is a longest run without "/".
PurePathName(filename) ==
    LET n       == Len(filename)
        ends    == {e \in 1..n : filename[e] # "/" /\ (e = n \/ filename[e + 1] = "/")}
        StartOf(e) == CHOOSE b \in 1..e :
                         /\ \A i \in b..e : filename[i] # "/"
                         /\ b = 1 \/ filename[b - 1] = "/"
        PartAt(e) == SubSeq(filename, StartOf(e), e)
        named   == {e \in ends : PartAt(e) # <<".">>}
    IN IF named = {} THEN <<>>
       ELSE PartAt(CHOOSE e \in named : \A f \in named : f <= e)

\* re.sub(r'[<>:"/\\|?*]', '_', filename)
ReplaceDangerous(filename) ==
    [i \in 1..Len(filename) |-> IF filename[i] \in DangerousChars THEN "_" ELSE filename[i]]

\* str.strip(chars)
StripChars(str, chars) ==
    LET kept == {i \in 1..Len(str) : str[i] \notin chars}
    IN IF kept = {} THEN <<>>
       ELSE SubSeq(str, CHOOSE i \in kept : \A j \in kept : i <= j,
                        CHOOSE i \in kept : \A j \in kept : j <= i)

\* the cut to 255 characters
Truncate(filename) ==
    IF Len(filename) > NameLimit THEN SubSeq(filename, 1, NameLimit) ELSE filename

\* sanitize_filename(filename)
sanitize_filename(filename) ==
    IF filename \in {None, NonString, <<>>} THEN <<"u", "n", "n", "a", "m", "e", "d">>
    ELSE LET cut == Truncate(StripChars(ReplaceDangerous(PurePathName(filename)),
                                        {".", " "}))
         IN IF cut = <<>> THEN <<"u", "n", "n", "a", "m", "e", "d">> ELSE cut

\* most characters of the short names
MaxName == 3

\* the characters of the short names: a letter, the stripped characters, the
\* separator, two dangerous characters
NameChars == {"a", ".", " ", "/", "<", "\\"}

\* 254 letters, the character c and a letter: 256 characters
LongName(c) == [i \in 1..(NameLimit + 1) |-> IF i = NameLimit THEN c ELSE "a"]

\* None, a value that is no string, the empty string, every short name, long
\* names
SanitizeInputs ==
    {None, NonString}
        \cup UNION {[1..n -> NameChars] : n \in 0..MaxName}
        \cup {LongName(c) : c \in {"a", ".", " "}}

sanitize_filename_call(filename) ==
    /\ UNCHANGED extVars
    /\ call' = [op |-> "sanitize_filename", args |-> <<filename>>]
    /\ ret' = sanitize_filename(filename)
    /\ UNCHANGED storeVars

NextSanitize == \E filename \in SanitizeInputs : sanitize_filename_call(filename)

SpecSanitize == InitCommon /\ [][NextSanitize]_vars

(***************************************************************************)
(* SpecRace: two savers call append_profile_history for the record p1; the *)
(* read of the log and the append of the line are separate steps.          *)
(***************************************************************************)
\* existing = load_profile_history(profile_path), and the diff and snapshot
\* the call computes from its arguments
append_read(w, old, new) ==
    /\ writers[w].pc = "idle"
    /\ ~LoadRaises("p1")
    /\ writers' = [writers EXCEPT ![w] =
                      [pc |-> "read", existing |-> load_profile_history("p1"),
                       changes |-> compute_profile_diff(old, new),
                       snapshot |-> make_snapshot("p1", new)]]
    /\ call' = [op |-> "append_profile_history.read", args |-> <<w, old, new>>]
    /\ ret' = None
    /\ UNCHANGED <<history, profiles, generated, current_profile, current_profile_file,
                   profiles_cache, backup, appOpen, configVars, submission, stems>>

\* variant: the version is taken from the log as it is when the line is written
new_entry_rereading(w) ==
    [kind |-> "entry", version |-> next_version(load_profile_history("p1")),
     profile_file |-> "p1", changes |-> writers[w].changes,
     snapshot |-> writers[w].snapshot]

\* the entry dict: its version follows the entries the call read
new_entry(w) ==
    [kind |-> "entry", version |-> next_version(writers[w].existing),
     profile_file |-> "p1", changes |-> writers[w].changes,
     snapshot |-> writers[w].snapshot]

\* the rest of the call: nothing on an empty diff, else the entry numbered
\* after the entries read is appended to the file as it is now
append_write(w) ==
    /\ writers[w].pc = "read"
    /\ LET entry == new_entry(w)
       IN IF DOMAIN writers[w].changes = {} THEN UNCHANGED history
          ELSE /\ Len(history["p1"].lines) < MaxLog
               /\ history' = [history EXCEPT !["p1"] =
                                 [exists |-> TRUE, lines |-> Append(@.lines, entry)]]
    /\ writers' = [writers EXCEPT ![w] = IdleWriter]
    /\ call' = [op |-> "append_profile_history.write", args |-> <<w>>]
    /\ ret' = None
    /\ UNCHANGED <<profiles, generated, current_profile, current_profile_file,
                   profiles_cache, backup, appOpen, configVars, submission, stems>>

\* the records the two savers pass: the topic unset or set
RaceDocs == {[EmptyDoc EXCEPT !["topic"] = t] : t \in {None, <<"A">>}}

NextRace ==
    \/ \E w \in Writers, old \in RaceDocs, new \in RaceDocs : append_read(w, old, new)
    \/ \E w \in Writers : append_write(w)

SpecRace == InitCommon /\ [][NextRace]_vars

(***************************************************************************)
(* SpecSubmit: submit_profile_to_form called with a profile file and a     *)
(* form URL that pass its checks; every _fill_form attempt and every wait  *)
(* is a step.                                                              *)
(***************************************************************************)
\* most retries a call is given
MaxRetries == 3

\* retry_delay_seconds: no wait, the default wait
RetryDelays == {0, 5}

\* how a _fill_form attempt ends: it returns True, it returns False, it
\* raises PlaywrightTimeoutError, it raises another Exception
FillOutcomes == {"confirmed", "unconfirmed", "timeout", "error"}

\* a mutant that waits after the last attempt too
WaitsBeforeRetry_every_attempt(attempt, max_retries, retry_delay_seconds) ==
    attempt <= max_retries /\ retry_delay_seconds > 0

\* the condition of the wait at the end of the loop body
WaitsBeforeRetry(attempt, max_retries, retry_delay_seconds) ==
    attempt < max_retries /\ retry_delay_seconds > 0

\* the end of the loop body: the next value of range(1, max_retries + 1), or
\* the statements after the loop
LoopNext(sub) ==
    IF sub.attempt < sub.max_retries
    THEN [sub EXCEPT !.pc = "attempt", !.attempt = sub.attempt + 1]
    ELSE [sub EXCEPT !.pc = "done", !.result = "False"]

\* what the call has returned, if it has
SubmitResult(sub) == IF sub.pc = "done" THEN <<sub.result>> ELSE None

\* submit_profile_to_form(..., max_retries, retry_delay_seconds) up to the
\* first attempt
submit_profile_to_form(max_retries, retry_delay_seconds) ==
    /\ submission.pc \in {"idle", "done"}
    /\ submission' =
          LoopNext([pc |-> "loop", max_retries |-> max_retries,
                    retry_delay_seconds |-> retry_delay_seconds, attempt |-> 0,
                    events |-> <<>>, result |-> "none"])
    /\ call' = [op |-> "submit_profile_to_form",
                args |-> <<max_retries, retry_delay_seconds>>]
    /\ ret' = SubmitResult(submission')
    /\ UNCHANGED <<storeVars, configVars, writers, stems>>

\* one pass of the try block: _fill_form ends with outcome
fill_form(outcome) ==
    /\ submission.pc = "attempt"
    /\ LET tried == [submission EXCEPT !.events = Append(@, outcome)]
       IN submission' =
             IF outcome = "confirmed"
             THEN [tried EXCEPT !.pc = "done", !.result = "True"]
             ELSE IF WaitsBeforeRetry(tried.attempt, tried.max_retries,
                                      tried.retry_delay_seconds)
             THEN [tried EXCEPT !.pc = "sleep"]
             ELSE LoopNext(tried)
    /\ ret' = SubmitResult(submission')
    /\ UNCHANGED <<call, storeVars, configVars, writers, stems>>

\* time.sleep(retry_delay_seconds) returns
sleep ==
    /\ submission.pc = "sleep"
    /\ submission' = LoopNext([submission EXCEPT !.events = Append(@, "sleep")])
    /\ ret' = SubmitResult(submission')
    /\ UNCHANGED <<call, storeVars, configVars, writers, stems>>

NextSubmit ==
    \/ \E max_retries \in 0..MaxRetries, retry_delay_seconds \in RetryDelays :
          submit_profile_to_form(max_retries, retry_delay_seconds)
    \/ \E outcome \in FillOutcomes : fill_form(outcome)
    \/ sleep

SpecSubmit == InitCommon /\ [][NextSubmit]_vars

(***************************************************************************)
(* Claims about the version log.                                           *)
(***************************************************************************)
\* C1: after any sequence of append_profile_history calls by a single writer
\* on a log that starts absent, the versions load_profile_history reads back
\* are exactly 1, 2, ..., n in log order.
C1_VersionsAreOneToN ==
    \A p \in RecordIds :
        LET entries == load_profile_history(p)
        IN \A i \in 1..Len(entries) : entries[i].version = i

\* a log of two entries written around a call that changed nothing
C1_Witness ==
    \E p \in RecordIds :
        /\ Len(load_profile_history(p)) = 2
        /\ call.op = "append_profile_history"
        /\ call.args[1] = p
        /\ call.args[2] = call.args[3]

\* C2: append_profile_history(record, old, new) is a no-op whenever the diff
\* of old and new is empty: the history files are left exactly as they were.
C2_EmptyDiffIsNoOp ==
    [][(/\ call'.op = "append_profile_history"
        /\ DOMAIN compute_profile_diff(call'.args[2], call'.args[3]) = {})
       => history' = history]_vars

\* a call with an empty diff on a record whose log already has an entry
C2_Witness ==
    /\ call.op = "append_profile_history"
    /\ DOMAIN compute_profile_diff(call.args[2], call.args[3]) = {}
    /\ Len(history[call.args[1]].lines) = 1

\* a field that is absent counts as a field that is empty
AbsentAsEmpty(v) == IF v = None THEN EmptyStr ELSE v

\* C4: _compute_profile_diff(A, B) contains exactly the keys k for which A[k]
\* and B[k] differ, an absent field counting the same as an empty one.
C4_DiffTreatsAbsentAsEmpty ==
    call.op = "_compute_profile_diff" =>
        DOMAIN ret = {k \in Keys : AbsentAsEmpty(call.args[1][k])
                                      # AbsentAsEmpty(call.args[2][k])}

(***************************************************************************)
(* Claims about saving through the application.                            *)
(***************************************************************************)
\* the document stored in the file the form was loaded from or last saved to
StoredCurrent == profiles[current_profile_file].data

\* C3: saving a record through save_profile_action with field values
\* identical to the record's currently stored values never appends a history
\* entry, also right after the record was loaded into the form from disk.
C3_UnchangedSaveAppendsNothing ==
    [][(/\ call'.op = "save_profile_action"
        /\ ret' = <<"saved">>
        /\ current_profile_file # NoPath
        /\ profiles[current_profile_file].exists
        /\ \A k \in FieldKeys : StoredCurrent[k] = call'.args[1][k])
       => history' = history]_vars

\* setting each changed field to its new value
ApplyChanges(doc, changes) ==
    [k \in Keys |-> IF k \in DOMAIN changes THEN changes[k].new ELSE doc[k]]

RECURSIVE ApplyChain(_, _)
\* the changes of entries 1..i applied in order to the empty record
ApplyChain(entries, i) ==
    IF i = 0 THEN EmptyDoc
    ELSE ApplyChanges(ApplyChain(entries, i - 1), entries[i].changes)

\* C5 as claimed: for every entry i of a log, applying the changes of entries
\* 1..i in order to the empty record yields entry i's snapshot (compared on
\* the record's fields; the snapshot's _file bookkeeping key is left out).
C5_ChainFromEmptyGivesSnapshot ==
    \A p \in RecordIds :
        LET entries == load_profile_history(p)
        IN \A i \in 1..Len(entries) :
              \A k \in FieldKeys : ApplyChain(entries, i)[k] = entries[i].snapshot[k]

\* C5 as amended: for every entry save_profile_action appends, applying the
\* entry's changes to the state the record was diffed against (the handler's
\* current_profile before the save) yields the entry's snapshot on every
\* field of the record.
C5_ChangesFromOldStateGiveSnapshot ==
    [][\A p \in RecordIds :
          Len(history'[p].lines) = Len(history[p].lines) + 1 =>
             LET entry == history'[p].lines[Len(history'[p].lines)]
             IN \A k \in FieldKeys :
                   ApplyChanges(current_profile.data, entry.changes)[k]
                       = entry.snapshot[k]]_vars

\* a save has appended the second entry of a log
C5_Witness ==
    /\ call.op = "save_profile_action"
    /\ ret = <<"saved">>
    /\ current_profile_file # NoPath
    /\ Len(load_profile_history(current_profile_file)) = 2
    /\ load_profile_history(current_profile_file)[2].snapshot["topic"]
          = call.args[1]["topic"]
    /\ "topic" \in DOMAIN load_profile_history(current_profile_file)[2].changes

\* C6: on every path that writes a record the change is logged, so that
\* whenever a stored record's log is non-empty its last snapshot equals the
\* record's current stored state.
C6_LastSnapshotIsStoredState ==
    \A p \in RecordIds :
        LET entries == load_profile_history(p)
        IN (profiles[p].exists /\ entries # <<>>) =>
              \A k \in FieldKeys :
                 entries[Len(entries)].snapshot[k] = profiles[p].data[k]

(***************************************************************************)
(* Claims about report extraction.                                         *)
(***************************************************************************)
RECURSIVE CandidatesFrom(_, _, _)
\* the candidates of identity n in merge order: for each of its profile files
\* in turn the current state, then the snapshots of its log in log order
CandidatesFrom(n, order, i) ==
    IF i > Len(order) THEN <<>>
    ELSE (IF profiles[order[i]].data["student_name"] = n
          THEN <<[profiles[order[i]].data EXCEPT !["_file"] = FileStr(order[i])]>>
               \o SnapshotsOf(order[i], load_profile_history(order[i]), 1)
          ELSE <<>>) \o CandidatesFrom(n, order, i + 1)

Candidates(n) == CandidatesFrom(n, call.args[2], 1)

\* the candidates left by deduplication: the first of each dedup key
Deduplicated(n) ==
    LET c == Candidates(n)
    IN SelectSeq([i \in 1..Len(c) |-> [at |-> i, entry |-> c[i]]],
                 LAMBDA x : \A j \in 1..(x.at - 1) : entry_id(c[j]) # entry_id(x.entry))

\* the date of the entry parses and lies in the month and year asked for
InDateWindow(entry, criteria) ==
    LET dt == parse_date(Get(entry, "date", EmptyStr))
    IN /\ dt.ok
       /\ criteria.year # NoYear => dt.y = criteria.year
       /\ criteria.month # NoMonth => dt.m = criteria.month

\* the deduplicated candidates of n that pass the date filter
Surviving(n) ==
    {x.entry : x \in {Deduplicated(n)[i] : i \in 1..Len(Deduplicated(n))}}
        \cap {e \in {Candidates(n)[i] : i \in 1..Len(Candidates(n))} :
                 InDateWindow(e, call.args[1])}

Returned(n) == ret.reports[n]

ReturnedSet(n) == {Returned(n)[i] : i \in 1..Len(Returned(n))}

ParsedOrd(entry) == DateOrd(parse_date(Get(entry, "date", EmptyStr)))

GetReportsReturned == call.op = "get_reports" /\ ~ret.raised

\* identity n is the student of exactly one stored profile file, and the
\* criteria do not filter the student out
OneRecord(n) ==
    /\ Cardinality({p \in RecordIds :
                       profiles[p].exists /\ profiles[p].data["student_name"] = n}) = 1
    /\ call.args[1].student_name \in {NoName, n}

\* C7: in the result of get_reports no two entries of one identity (here the
\* student of one profile file) share the dedup key (date, quran_surah,
\* topic), and the entry kept for a key is the earliest candidate with that
\* key in merge order.
C7_NoTwoEntriesShareDedupKey ==
    GetReportsReturned =>
        \A n \in {m \in Names : OneRecord(m)} :
            /\ \A i, j \in 1..Len(Returned(n)) :
                  i # j => entry_id(Returned(n)[i]) # entry_id(Returned(n)[j])
            /\ \A i \in 1..Len(Returned(n)) :
                  \E x \in {Deduplicated(n)[k] : k \in 1..Len(Deduplicated(n))} :
                      x.entry = Returned(n)[i]

\* C8: in mode first (last) get_reports returns for each identity with a
\* surviving candidate exactly one entry; it has the dedup key of a surviving
\* candidate and the chronologically earliest (latest) parsed date among the
\* surviving candidates.
C8_FirstLastIsChronological ==
    (GetReportsReturned /\ call.args[1].mode \in {"first", "last"}) =>
        \A n \in {m \in Names : OneRecord(m)} :
            Surviving(n) # {} =>
                /\ Len(Returned(n)) = 1
                /\ \E e \in Surviving(n) : entry_id(e) = entry_id(Returned(n)[1])
                /\ \A e \in Surviving(n) :
                      IF call.args[1].mode = "first"
                      THEN ParsedOrd(Returned(n)[1]) <= ParsedOrd(e)
                      ELSE ParsedOrd(Returned(n)[1]) >= ParsedOrd(e)

\* C9: in mode all the list of each identity contains every surviving
\* candidate and is ordered by parsed calendar date, newest first.
C9_AllIsNewestFirst ==
    (GetReportsReturned /\ call.args[1].mode = "all") =>
        \A n \in {m \in Names : OneRecord(m)} :
            /\ Surviving(n) \subseteq ReturnedSet(n)
            /\ \A i, j \in 1..Len(Returned(n)) :
                  (i < j /\ parse_date(Get(Returned(n)[i], "date", EmptyStr)).ok
                         /\ parse_date(Get(Returned(n)[j], "date", EmptyStr)).ok)
                     => ParsedOrd(Returned(n)[i]) >= ParsedOrd(Returned(n)[j])

\* C10: for criteria with a month and a year the list of an identity holds
\* exactly the deduplicated candidates dated in that month: no entry outside
\* it, in mode all none missing, and no candidate twice.
C10_MonthYearFilterIsExact ==
    (GetReportsReturned /\ call.args[1].month # NoMonth /\ call.args[1].year # NoYear) =>
        \A n \in {m \in Names : OneRecord(m)} :
            /\ \A e \in ReturnedSet(n) : InDateWindow(e, call.args[1])
            /\ call.args[1].mode = "all" => Surviving(n) \subseteq ReturnedSet(n)
            /\ \A i, j \in 1..Len(Returned(n)) :
                  i # j => Returned(n)[i] # Returned(n)[j]

(***************************************************************************)
(* Claims about the date filter.                                           *)
(***************************************************************************)
\* C11: _matches_date_criteria fails closed: for every criteria, also with
\* neither month nor year set, a date that parses under neither DD/MM/YYYY
\* nor YYYY-MM-DD does not match; with neither set every parseable date
\* matches.
C11_DateFilterFailsClosed ==
    call.op = "_matches_date_criteria" =>
        LET report_date == call.args[1]
            criteria    == call.args[2]
        IN /\ ~parse_date(report_date).ok => ret = FALSE
           /\ (parse_date(report_date).ok /\ criteria.month = NoMonth
                   /\ criteria.year = NoYear) => ret = TRUE

(***************************************************************************)
(* Claims about reading a damaged log.                                     *)
(***************************************************************************)
\* every line of the file is a version entry or a line that does not parse
\* as a JSON object (a JSON object that is no version entry is left aside)
EntriesAndMalformed(file) ==
    \A i \in 1..Len(file.lines) : file.lines[i].kind # "object"

\* C12: load_profile_history on a log with malformed lines among well-formed
\* ones raises no exception and returns exactly the well-formed entries, in
\* log order.
C12_MalformedLinesAreSkipped ==
    (/\ call.op = "load_profile_history"
     /\ EntriesAndMalformed(history[call.args[1]])
     /\ \E i \in 1..Len(history[call.args[1]].lines) :
           history[call.args[1]].lines[i].kind = "entry") =>
        /\ ~ret.raised
        /\ ret.entries = SelectSeq(history[call.args[1]].lines,
                                   LAMBDA line : line.kind = "entry")

(***************************************************************************)
(* Claims about the application and its logs, continued.                   *)
(***************************************************************************)
\* C13: every operation of the application (save, with its append, delete,
\* backup, restore, report extraction, close) leaves each history file an
\* extension of what it was: no line is changed, reordered or removed, and
\* the file is kept when the profile file is deleted.
C13_LogOnlyGrows ==
    [][\A p \in RecordIds :
          /\ history[p].exists => history'[p].exists
          /\ IsPrefix(history[p].lines, history'[p].lines)]_vars

\* a profile with a non-empty log was deleted and the log is still there
C13_Witness ==
    /\ call.op = "delete_profile_action"
    /\ ret = <<"deleted">>
    /\ \E p \in RecordIds :
          /\ ~profiles[p].exists
          /\ history[p].exists
          /\ Len(history[p].lines) >= 1

\* the fields of the record in which the saved form differs from what is stored
ChangedFields(data) == {k \in FieldKeys : StoredCurrent[k] # data[k]}

\* C14: the save that creates a record appends no history entry; the second
\* save of the record (its log is still empty and the handler holds the
\* stored state), changing exactly one field, appends exactly one entry, with
\* version 1 and with changes made of that one field, its old and new value.
C14_SecondSaveLogsOneField ==
    [][(call'.op = "save_profile_action" /\ ret' = <<"saved">>) =>
          LET data == call'.args[1]
          IN /\ current_profile_file = NoPath => history' = history
             /\ (/\ current_profile_file # NoPath
                 /\ profiles[current_profile_file].exists
                 /\ current_profile.set
                 /\ \A k \in FieldKeys : current_profile.data[k] = StoredCurrent[k]
                 /\ history[current_profile_file].lines = <<>>
                 /\ Cardinality(ChangedFields(data)) = 1)
                => /\ \A q \in RecordIds \ {current_profile_file} : history'[q] = history[q]
                   /\ Len(history'[current_profile_file].lines) = 1
                   /\ history'[current_profile_file].lines[1].version = 1
                   /\ history'[current_profile_file].lines[1].changes
                         = [k \in ChangedFields(data) |->
                               [old |-> StoredCurrent[k], new |-> data[k]]]]_vars

(***************************************************************************)
(* Claims about failures during extraction.                                *)
(***************************************************************************)
\* C15: get_reports never aborts the batch: whatever damaged history line or
\* missing, unparseable or legacy date a record has, it completes without
\* raising, and in mode all it returns the current state of every other
\* record that passes the filters.
C15_GetReportsNeverAborts ==
    call.op = "get_reports" =>
        /\ ~ret.raised
        /\ (/\ call.args[1].mode = "all"
            /\ profiles["p2"].exists
            /\ call.args[1].student_name \in {NoName, profiles["p2"].data["student_name"]}
            /\ InDateWindow(profiles["p2"].data, call.args[1]))
           => \E i \in 1..Len(Returned(profiles["p2"].data["student_name"])) :
                 Returned(profiles["p2"].data["student_name"])[i]["_file"] = FileStr("p2")

\* C16: when a step of save_profile_action fails with a storage error
\* (writing the record file, or appending the history entry after the record
\* file was written) the action reports failure and the record's stored file,
\* its log, current_profile and current_profile_file are as they were.
C16_FailedSaveChangesNothing ==
    [][(call'.op = "save_profile_action" /\ call'.args[2] # "none") =>
          /\ ret' = <<"error">>
          /\ UNCHANGED <<profiles, history, current_profile, current_profile_file>>]_vars

\* no line of the file is a version entry or another JSON object
FullyCorrupt(file) ==
    /\ file.exists
    /\ file.lines # <<>>
    /\ \A i \in 1..Len(file.lines) : file.lines[i].kind \notin {"entry", "object"}

\* C17: load_profile_history returns the empty sequence without error when
\* the record has no log file, and also when every line of the log is
\* malformed or the log cannot be read; on such a log a following
\* append_profile_history with a non-empty diff still adds an entry.
C17_CorruptLogReadsEmptyAndAppends ==
    [][/\ (/\ call'.op = "load_profile_history"
           /\ \/ ~history[call'.args[1]].exists
              \/ FullyCorrupt(history[call'.args[1]]))
          => ret' = [raised |-> FALSE, entries |-> <<>>]
       /\ (/\ call'.op = "append_profile_history"
           /\ FullyCorrupt(history[call'.args[1]])
           /\ DOMAIN compute_profile_diff(call'.args[2], call'.args[3]) # {})
          => /\ ret' = None
             /\ Len(history'[call'.args[1]].lines) = Len(history[call'.args[1]].lines) + 1
             /\ history'[call'.args[1]].lines[Len(history'[call'.args[1]].lines)].kind
                   = "entry"]_vars

(***************************************************************************)
(* Claims about what the store accepts.                                    *)
(***************************************************************************)
\* C18: save_profile called with data whose student_name is missing or blank
\* fails with a validation error and persists nothing: no profile file is
\* created or modified and no history entry is appended.
C18_NamelessSaveIsRejected ==
    [][(/\ call'.op = "save_profile"
        /\ Strip(Get(call'.args[1], "student_name", EmptyStr)) = EmptyStr)
       => /\ ret' = <<"ValueError">>
          /\ UNCHANGED <<profiles, history>>]_vars

\* save_profile was called with a blank name for a file that is stored
C18_Witness ==
    /\ call.op = "save_profile"
    /\ call.args[1]["student_name"] = <<" ">>
    /\ call.args[2] # NoPath
    /\ profiles[call.args[2]].exists
    /\ ret = <<"ValueError">>

\* C19: every record persisted by save_profile, and so by restore, has a
\* date that is empty or parses as DD/MM/YYYY or as YYYY-MM-DD, that is,
\* every stored non-empty date is parseable by _parse_date.
C19_StoredDatesParse ==
    \A p \in RecordIds :
        profiles[p].exists =>
            \/ Get(profiles[p].data, "date", EmptyStr) = EmptyStr
            \/ parse_date(profiles[p].data["date"]).ok

\* the backup items that are mappings and pass validate_profile_data
GoodItems(items) ==
    {i \in 1..Len(items) :
        /\ items[i] # NonDictItem
        /\ ~ValidateRaises(items[i])
        /\ validate_profile_data(items[i])}

\* the good items that name the profile file p in _file
GoodItemsFor(items, p) == {i \in GoodItems(items) : items[i]["_file"] = FileStr(p)}

\* C20: restore_profiles_from_backup writes exactly the backup items that
\* are mappings and pass validate_profile_data, skips every other item
\* without aborting, and returns the number of records it wrote.
C20_RestoreSkipsInvalidItems ==
    [][call'.op = "restore_profiles_from_backup" =>
          LET items == call'.args[1]
          IN /\ ret' = <<"restored", Cardinality(GoodItems(items))>>
             /\ \A p \in RecordIds :
                   IF GoodItemsFor(items, p) # {}
                   THEN profiles'[p] =
                           [exists |-> TRUE,
                            data |-> items[CHOOSE i \in GoodItemsFor(items, p) :
                                              \A j \in GoodItemsFor(items, p) : j <= i]]
                   ELSE (\A i \in GoodItems(items) : items[i]["_file"] # None)
                           => profiles'[p] = profiles[p]]_vars

\* the _fill_form attempts of the running or finished call, in order
Attempts(sub) == SelectSeq(sub.events, LAMBDA e : e # "sleep")

\* the call has returned and none of its max_retries attempts was confirmed
AllAttemptsFailed(sub) ==
    /\ sub.pc = "done"
    /\ sub.max_retries >= 1
    /\ Len(Attempts(sub)) = sub.max_retries
    /\ \A i \in 1..Len(sub.events) : sub.events[i] # "confirmed"

\* C21: when every one of the max_retries attempts fails,
\* submit_profile_to_form raises RuntimeError to its caller.
C21_AllFailedRaisesRuntimeError ==
    AllAttemptsFailed(submission) => submission.result = "RuntimeError"

RECURSIVE PathExists(_, _)
\* every part of the key names a key of a dict
PathExists(value, keys) ==
    \/ keys = <<>>
    \/ /\ value.t = "dict"
       /\ Head(keys) \in DOMAIN value.v
       /\ PathExists(value.v[Head(keys)], Tail(keys))

\* C22: for every key, dotted keys included, get(key) after set(key, v)
\* returns v, and get of a key whose path does not exist returns the
\* default it was given.
C22_GetAfterSet ==
    /\ call.op = "set" => get(call.args[1], Missing) = call.args[2]
    /\ (call.op = "get" /\ ~PathExists(config, call.args[1])) => ret = <<call.args[2]>>

\* a key below the string theme was set
C22_Witness ==
    /\ call.op = "set"
    /\ call.args[1] = <<"theme", "mode">>
    /\ get(<<"theme", "mode">>, Missing) = Str("dark")

\* the paths add_recent_file was given, oldest first
AddedPaths ==
    RecentBefore \o [i \in 1..Len(config_calls) |-> config_calls[i].args[1]]

RECURSIVE LatestDistinct(_, _)
\* the n most recently added distinct paths of a list of additions
LatestDistinct(added, n) ==
    IF added = <<>> \/ n = 0 THEN {}
    ELSE LET last == added[Len(added)]
         IN {last} \cup LatestDistinct(SelectSeq(added, LAMBDA x : x # last), n - 1)

\* C23: after any sequence of add_recent_file calls get_recent_files holds
\* every one of the 10 most recently added distinct paths, no path twice,
\* at most 10 entries, and the most recently added path first.
C23_RecentFiles ==
    LET recent == get_recent_files.v
    IN /\ \A x \in LatestDistinct(AddedPaths, 10) : \E i \in 1..Len(recent) : recent[i] = x
       /\ \A i, j \in 1..Len(recent) : recent[i] = recent[j] => i = j
       /\ Len(recent) <= 10
       /\ recent[1] = AddedPaths[Len(AddedPaths)]

\* three new paths were added and the two oldest paths have left the list
C23_Witness ==
    /\ call.op = "add_recent_file"
    /\ Len(get_recent_files.v) = 10
    /\ \A i \in 1..10 : get_recent_files.v[i] \notin {"f1", "f2"}

\* the mutators that save: set is called with save = True
SavingMutator ==
    \/ call.op \in {"set_teacher_info", "add_recent_file", "set_theme",
                    "set_google_form_settings"}
    \/ call.op = "set" /\ call.args[3]

\* C29: after a ConfigManager mutator called with saving enabled returns
\* successfully, the settings file holds the values of the in-memory
\* configuration.
C29_FileHoldsConfig ==
    (SavingMutator /\ ret \in {None, <<"True">>}) =>
        settings_file.exists /\ settings_file.data = config

\* C30: no sequence of ConfigManager operations changes DEFAULT_SETTINGS: a
\* ConfigManager created afresh with no settings file starts with the
\* original default values.
C30_DefaultsNeverChange ==
    /\ DEFAULT_SETTINGS = OriginalDefaults
    /\ (call.op = "ConfigManager" /\ call.args[1]) => config = OriginalDefaults

\* C24: for every input, None, the empty string and names with directory
\* parts included, sanitize_filename returns a name that is not empty, has
\* at most 255 characters, holds none of the characters < > : " / \ | ? *
\* and neither begins nor ends with a dot or a space.
C24_SanitizedName ==
    call.op = "sanitize_filename" =>
        /\ ret # <<>>
        /\ Len(ret) <= 255
        /\ \A i \in 1..Len(ret) : ret[i] \notin {"<", ">", ":", "\"", "/", "\\", "|", "?", "*"}
        /\ ret[1] \notin {".", " "}
        /\ ret[Len(ret)] \notin {".", " "}

\* the versions of the log of p1 grow strictly in log order
StrictlyIncreasing(h) ==
    \A i, j \in 1..Len(h["p1"].lines) :
        i < j => h["p1"].lines[i].version < h["p1"].lines[j].version

\* C25: when two saves of the same record interleave, each reading the log
\* for the last version and then appending its entry, the log never holds
\* two entries with the same version and the versions stay strictly
\* increasing in log order.
C25_InterleavedSavesKeepVersions == StrictlyIncreasing(history)

\* w appends an entry and no other saver has appended since w read the log
AppendsUninterleaved(w) ==
    /\ writers[w].pc = "read"
    /\ writers'[w].pc = "idle"
    /\ history' # history
    /\ writers[w].existing = load_profile_history("p1")

\* C25 as amended: an entry gets the version after the last entry its saver
\* read, so the versions stay strictly increasing across every save that no
\* other saver's append separates from its read; two interleaved saves can
\* append the same version.
C25_UninterleavedSavesKeepVersions ==
    [][\A w \in Writers :
          (writers[w].pc = "read" /\ writers'[w].pc = "idle" /\ history' # history) =>
             LET lines == history'["p1"].lines
                 read  == writers[w].existing
             IN /\ lines[Len(lines)].version =
                      (IF read = <<>> THEN 0 ELSE read[Len(read)].version) + 1
                /\ (AppendsUninterleaved(w) /\ StrictlyIncreasing(history))
                      => StrictlyIncreasing(history')]_vars

\* the second saver read the log after the first had appended, and appended
C25_Witness ==
    /\ call.op = "append_profile_history.write"
    /\ call.args[1] = "w2"
    /\ Len(history["p1"].lines) = 2
    /\ history["p1"].lines[1].version = 1
    /\ history["p1"].lines[2].version = 2

\* the reports a record file can give from its own files: its current state
\* and the snapshots of its own log, each with _file set to its path
OwnReports(p) ==
    {[profiles[p].data EXCEPT !["_file"] = FileStr(p)]}
        \cup {[history[p].lines[j].snapshot EXCEPT !["_file"] = FileStr(p)] :
                 j \in {k \in 1..Len(history[p].lines) : history[p].lines[k].kind = "entry"}}

\* C27: every report get_reports returns for a record file is that file's
\* current state or a snapshot read from the record's own history log, never
\* a snapshot from the log of another record.
C27_OwnLogOnly ==
    (call.op = "get_reports" /\ ~ret.raised) =>
        \A n \in Names : \A i \in 1..Len(ret.reports[n]) :
            \E p \in RecordIds :
                /\ profiles[p].exists
                /\ ret.reports[n][i]["_file"] = FileStr(p)
                /\ ret.reports[n][i] \in OwnReports(p)

\* C28: for a fixed store and fixed criteria the result of get_reports in
\* mode first or last is the same for every order in which the record files
\* can be enumerated, also when two files carry the same student_name.
C28_OrderIndependent ==
    (call.op = "get_reports" /\ call.args[1].mode \in {"first", "last"}) =>
        \A order \in FileOrders : get_reports(call.args[1], order) = ret

====
